---- MODULE Spec2Model ----
(***************************************************************************)
(* Client-side message reconciliation of the conversation view            *)
(* (src/src/components/thread/index.tsx, function Thread).                 *)
(*                                                                         *)
(* The component is a React function component.  A state of the model is  *)
(* one committed render: the hook state (streamedMessages,                *)
(* persistedIntermediateGroups, optimisticMessage, threadId) together     *)
(* with the values the stream context exposes (messages, isLoading,       *)
(* error).  The useMemo reconciler is a pure function of that state       *)
(* (operator Reconcile); its result in the current render is held in      *)
(* view.  An event (a handler or a notification of the stream context)    *)
(* produces a render whose passive effects have not run yet               *)
(* (effectsPending); RunEffects runs the useEffect bodies of that commit  *)
(* against the values the render closed over and applies the queued       *)
(* state updates, which produces the next render.  No event is handled    *)
(* while effects are pending.  The effect that only feeds                  *)
(* streamingStartMessageCount does not reach the reconciler and is left    *)
(* out.  The stream context itself (providers/Stream) is the environment:  *)
(* it may append, remove and rewrite messages and end streaming.           *)
(*                                                                         *)
(* Further parts stand beside the conversation view, each with its own     *)
(* variables and specification:                                            *)
(*   - the requests that handleSubmit and handleRegenerate hand to         *)
(*     stream.submit, followed on messages that carry their tool calls     *)
(*     (SpecRequest);                                                      *)
(*   - the thread provider (src/src/components/theme-toggle.tsx,           *)
(*     ThreadProvider) with its deleteThread, duplicateThread and          *)
(*     renameThread invocations, their requests and timers, and its        *)
(*     renders, which renew the callback closures (SpecProvider,           *)
(*     SpecProviderLive);                                                  *)
(*   - the effect of Thread that shows a toast for stream.error            *)
(*     (SpecError);                                                        *)
(*   - the parsers of streamed tool-call arguments and of thinking blocks  *)
(*     (messages/ai.tsx, thread/utils.ts), on token sequences (SpecParse); *)
(*   - attachments from selection to the submitted content (SpecUpload);   *)
(*   - the token usage shown under the last assistant message of a turn    *)
(*     (SpecUsage);                                                        *)
(*   - the temporary-chat cleaner (src/workers/temporary-chat-cleaners/    *)
(*     run.sh) on one listing of threads (SpecCleaner);                    *)
(*   - the sequence handleSubmit projects and what the transcript shows    *)
(*     of it (SpecSubmit);                                                 *)
(*   - temporary mode, the metadata of a submission and the actions that   *)
(*     leave an open thread (SpecMode).                                    *)
(***************************************************************************)
EXTENDS Integers, Sequences, FiniteSets, TLC

\* ------------------------------------------------------------------ bounds
MaxLen == 4

MaxVersion == 2

HumanIds == {"h1", "h2"}

AiIds == {"t1", "a1"}

ThreadIds == {"T1"}

\* longest stream.messages the request handlers are applied to
MaxHistory == 3

CallIds == {"c1", "c2"}

\* the threads of the history list, and the most invocations of thread operations followed per run
ListedThreadIds == {"T1", "T2"}

\* the listed threads and the copy a duplication makes
AllThreadIds == ListedThreadIds \cup {"T3"}

Titles == {"a", "b"}

\* the lists client.threads.search can return
ThreadLists == UNION {[S -> Titles] : S \in SUBSET AllThreadIds}

MaxCalls == 2

\* the message texts of stream errors ("" for an error value without a message), the error objects
\* told apart, and the most error notifications followed per run
ErrorTexts == {"", "m", "n"}

ErrorObjects == 1..2

MaxErrorToasts == 4

\* longest streamed JSON text handed to the parsers, in tokens
MaxInputLen == 4

\* the tokens of a JSON text: braces and comma, a key with its colon ("thinking" or another key),
\* a string literal, a number, null, and "q" for a quote that opens a string the text never closes
JsonTokens == {"{", "}", ",", "t:", "k:", "s", "1", "n", "q"}

JsonTexts == UNION {[1..n -> JsonTokens] : n \in 0..MaxInputLen}

\* the types of the files a user selects, and the most files selected per run
FileTypes == {"image/jpeg", "image/png", "image/gif", "image/webp", "application/pdf", "image/svg+xml", "text/plain", ""}

MaxFiles == 2

\* longest intermediate group whose usage is aggregated
MaxIntermediates == 2

\* most threads the server lists for one run of the temporary-chat cleaner
MaxListed == 2

\* input.trim().slice(0, 50): the length a thread title is cut to
TitleLength == 50

\* ------------------------------------------------------------- data model
\* null for a Message-valued state (optimisticMessage); no message has this id
NULL == [id |-> "null", type |-> "none", v |-> 0]

\* null for the threadId query state
NoThread == "null"

NoId == "undefined"

TypeOf(id) == IF id \in HumanIds THEN "human" ELSE IF id = "t1" THEN "tool" ELSE "ai"

Msg(id, v) == [id |-> id, type |-> TypeOf(id), v |-> v]

HumanMsgs == {Msg(h, 1) : h \in HumanIds}

AiMsgs == {Msg(a, 1) : a \in AiIds \cup {NoId}}

Ids(s) == {s[i].id : i \in DOMAIN s}

IsAiOrTool(m) == m.type = "ai" \/ m.type = "tool"

\* Array.prototype.findLastIndex for (m) => m.type === "human"; 0 stands for -1
FindLastHumanIndex(s) == IF \E i \in DOMAIN s : s[i].type = "human" THEN CHOOSE i \in DOMAIN s : s[i].type = "human" /\ \A j \in DOMAIN s : s[j].type = "human" => j <= i ELSE 0

\* Array.prototype.slice(0, -1)
SliceButLast(s) == IF Len(s) = 0 THEN <<>> ELSE SubSeq(s, 1, Len(s) - 1)

\* new Map(prev).set(id, m) on an insertion-ordered Map held as the sequence of its values
MapSet(s, m) == IF \E i \in DOMAIN s : s[i].id = m.id THEN [i \in DOMAIN s |-> IF s[i].id = m.id THEN m ELSE s[i]] ELSE Append(s, m)

\* list.forEach((m) => m.id && map.set(m.id, m)) from position i on
RECURSIVE SetAllFrom(_, _, _)
SetAllFrom(map, list, i) == IF i > Len(list) THEN map ELSE SetAllFrom(IF list[i].id # NoId THEN MapSet(map, list[i]) ELSE map, list, i + 1)

\* Map<string, Message[]>.set(key, val) on a map held as a function
GroupsSet(g, key, val) == [k \in (DOMAIN g) \cup {key} |-> IF k = key THEN val ELSE g[k]]

\* Map.get(key) || []
GroupsGet(g, key) == IF key \in DOMAIN g THEN g[key] ELSE <<>>

EmptyGroups == [k \in {} |-> <<>>]

\* ------------------------------------------------------------------ state
\* messages, isLoading, error: the stream context; streamedMessages (the accumulator),
\* persistedIntermediateGroups (the persistence cache), optimisticMessage, threadId: hook state of Thread;
\* effectsPending: the passive effects of the current render have not run yet;
\* view: the { messages, intermediateGroups } result of the useMemo reconciler in the current render;
\* captured: history variable, the human id and the ids the accumulator held when it was last frozen
\* and, while the accumulator is filled, the human message under which each entry was last set;
\* regenerated: history variable, the turn of the last regeneration request made on a completed
\* one-answer turn and the id of that answer
VARIABLES messages, isLoading, error, streamedMessages, persistedIntermediateGroups, optimisticMessage, threadId, effectsPending, view, captured, regenerated

\* the conversation view (Thread)
threadVars == <<messages, isLoading, error, streamedMessages, persistedIntermediateGroups, optimisticMessage, threadId, effectsPending, view, captured, regenerated>>

\* toolHistory: stream.messages as the request handlers read it, with the tool calls of the assistant
\* messages and the tool_call_id of the tool messages (the reconciler reads neither);
\* request: what the last stream.submit call submitted
VARIABLES toolHistory, request

requestVars == <<toolHistory, request>>

\* ThreadProvider: threads (thread id -> title) and deletingThreadIds, duplicatingThreadIds,
\* renamingThreadIds are its state (queued updates applied); toasts: the notifications issued, by operation;
\* deleteThreadSees: the deletingThreadIds that the deleteThread callback of the last render closed over;
\* deleteCalls: the deleteThread invocations that started a request; likewise for duplicate and rename
VARIABLES threads, toasts, deletingThreadIds, deleteThreadSees, deleteCalls

VARIABLES duplicatingThreadIds, duplicateThreadSees, duplicateCalls

VARIABLES renamingThreadIds, renameThreadSees, renameCalls

deleteVars == <<deletingThreadIds, deleteThreadSees, deleteCalls>>

duplicateVars == <<duplicatingThreadIds, duplicateThreadSees, duplicateCalls>>

renameVars == <<renamingThreadIds, renameThreadSees, renameCalls>>

providerVars == <<threads, toasts, deleteVars, duplicateVars, renameVars>>

\* the error effect of Thread: streamError is stream.error (an object with its message, or undefined),
\* lastError the ref lastError.current, errorToasts the texts of the notifications issued;
\* periodToasts: history variable, the notifications issued since the store's error text last changed
\* or the error was last cleared
VARIABLES streamError, lastError, errorToasts, periodToasts

errorVars == <<streamError, lastError, errorToasts, periodToasts>>

\* the parsers of streamed content: parseInput is the text of a tool call input, of a message content or
\* of function.arguments; parseResult what the function applied to it gave
VARIABLES parseInput, parseResult

parseVars == <<parseInput, parseResult>>

\* attachments: contentBlocks is the state of useFileUpload, uploadToasts the number of
\* "Unsupported file type" notifications, submittedContent the content of the last human message built
\* by handleSubmit
VARIABLES contentBlocks, uploadToasts, submittedContent

uploadVars == <<contentBlocks, uploadToasts, submittedContent>>

\* token usage: usageMessages is the list the transcript maps over (messages of the reconciler output
\* with their usage_metadata), usageGroups its intermediateGroups, aggregatedUsage the prop computed
\* for the message at position shownAt (0: none computed yet)
VARIABLES usageMessages, usageGroups, shownAt, aggregatedUsage

usageVars == <<usageMessages, usageGroups, shownAt, aggregatedUsage>>

\* the temporary-chat cleaner (workers/temporary-chat-cleaners/run.sh): listed is the answer of
\* /threads/search, cleanerAt the position of the while loop, cleanerDeleted the positions of the
\* threads the server deleted on the script's DELETE request
VARIABLES listed, cleanerAt, cleanerDeleted

cleanerVars == <<listed, cleanerAt, cleanerDeleted>>

\* what a submission of handleSubmit leaves behind besides the request: projection is the sequence
\* its optimisticValues make the stream show, with the reconciler output and the transcript for it
VARIABLES projection

submitVars == <<projection>>

\* isTemporaryMode: the state of ThreadProvider that the "Temporary Chat" switch toggles;
\* submittedMetadata: the metadata option of the last stream.submit call of handleSubmit;
\* leftWhileTemporary (history): the last action on the mode left an open thread and found
\* temporary mode on
VARIABLES isTemporaryMode, submittedMetadata, leftWhileTemporary

modeVars == <<isTemporaryMode, submittedMetadata, leftWhileTemporary>>

vars == <<threadVars, requestVars, providerVars, errorVars, parseVars, uploadVars, usageVars, cleanerVars, submitVars, modeVars>>

\* what a step of one part leaves alone
besidesThread == <<requestVars, providerVars, errorVars, parseVars, uploadVars, usageVars, cleanerVars, submitVars, modeVars>>

besidesRequest == <<threadVars, providerVars, errorVars, parseVars, uploadVars, usageVars, cleanerVars, submitVars, modeVars>>

besidesProvider == <<threadVars, requestVars, errorVars, parseVars, uploadVars, usageVars, cleanerVars, submitVars, modeVars>>

besidesError == <<threadVars, requestVars, providerVars, parseVars, uploadVars, usageVars, cleanerVars, submitVars, modeVars>>

besidesUpload == <<threadVars, requestVars, providerVars, errorVars, parseVars, usageVars, cleanerVars, submitVars, modeVars>>

besidesUsage == <<threadVars, requestVars, providerVars, errorVars, parseVars, uploadVars, cleanerVars, submitVars, modeVars>>

besidesCleaner == <<threadVars, requestVars, providerVars, errorVars, parseVars, uploadVars, usageVars, submitVars, modeVars>>

besidesSubmit == <<threadVars, requestVars, providerVars, errorVars, parseVars, uploadVars, usageVars, cleanerVars, modeVars>>

besidesMode == <<threadVars, requestVars, providerVars, errorVars, parseVars, uploadVars, usageVars, cleanerVars, submitVars>>

besidesThreadAndMode == <<requestVars, providerVars, errorVars, parseVars, uploadVars, usageVars, cleanerVars, submitVars>>

besidesParse == <<threadVars, requestVars, providerVars, errorVars, uploadVars, usageVars, cleanerVars, submitVars, modeVars>>

NoCapture == [human |-> NoId, ids |-> <<>>, at |-> <<>>]

NoRegeneration == [human |-> NoId, prev |-> NoId]

IdSeq(s) == [i \in DOMAIN s |-> s[i].id]

LastHumanId(s) == IF FindLastHumanIndex(s) = 0 THEN NoId ELSE s[FindLastHumanIndex(s)].id

\* ------------------------------------------------------------- reconciler
\* faulty variant of BaseMessages: the optimistic message is appended without looking for its id
BaseMessagesAlways(msgs, opt) == IF opt # NULL THEN Append(msgs, opt) ELSE msgs

\* step 1: baseMessages = [...stream.messages] plus the optimistic message when no message has its id
BaseMessages(msgs, opt) == IF opt # NULL /\ ~(\E i \in DOMAIN msgs : msgs[i].id = opt.id) THEN Append(msgs, opt) ELSE msgs

\* step 3: pre-seeding of intermediateGroupsMap for the last human message
PreSeed(base, acc, groups, loading) == LET lhi == FindLastHumanIndex(base) IN IF lhi # 0 /\ (loading \/ Len(acc) > 0) /\ base[lhi].id # NoId /\ Len(acc) > 0 THEN GroupsSet(groups, base[lhi].id, SliceButLast(acc)) ELSE groups

\* faulty variant of AllAIs: the persisted version is written last and replaces the live one
AllAIsPersistedWins(persisted, ais) == SetAllFrom(SetAllFrom(<<>>, ais, 1), persisted, 1)

\* faulty variant of AllAIs: the two lists are concatenated, not merged by id
AllAIsConcatenated(persisted, ais) == SelectSeq(persisted \o ais, LAMBDA m : m.id # NoId)

\* the merge of finalizeTurn: persisted first, then the turn's AIs, keyed by id
AllAIs(persisted, ais) == SetAllFrom(SetAllFrom(<<>>, persisted, 1), ais, 1)

\* const finalizeTurn = (human, ais) => {...}; st carries finalMessages and intermediateGroupsMap
FinalizeTurn(st, human, ais) == LET allAIs == AllAIs(GroupsGet(st.groups, human.id), ais) IN IF Len(allAIs) > 0 THEN [st EXCEPT !.final = Append(Append(st.final, human), allAIs[Len(allAIs)]), !.groups = GroupsSet(st.groups, human.id, SliceButLast(allAIs))] ELSE [st EXCEPT !.final = Append(st.final, human)]

\* for (const msg of baseMessages) {...}; st.human is the index of currentTurnHuman (0: null)
RECURSIVE TurnScan(_, _, _)
TurnScan(base, i, st) == IF i > Len(base) THEN st ELSE LET msg == base[i] IN IF msg.type = "human" THEN TurnScan(base, i + 1, [(IF st.human # 0 THEN FinalizeTurn(st, base[st.human], st.ais) ELSE st) EXCEPT !.human = i, !.ais = <<>>]) ELSE IF st.human # 0 THEN TurnScan(base, i + 1, [st EXCEPT !.ais = Append(st.ais, msg)]) ELSE TurnScan(base, i + 1, [st EXCEPT !.final = Append(st.final, msg)])

\* candidate AIs of the last turn: streamedMessages without the ids of earlier turns
ActiveTurnAIs(base, acc) == LET lhi == FindLastHumanIndex(base) previousMessageIds == {base[j].id : j \in 1..(lhi - 1)} IN SelectSeq(acc, LAMBDA m : m.id \notin previousMessageIds)

\* faulty variant of LastTurn: the last turn is finalized from the stream's current sequence only
LastTurnFromStore(base, acc, st) == IF st.human = 0 THEN st ELSE FinalizeTurn(st, base[st.human], st.ais)

\* "Handle the last (current) turn"
LastTurn(base, acc, st) == IF st.human = 0 THEN st ELSE LET isActiveTurn == st.human = FindLastHumanIndex(base) IN FinalizeTurn(st, base[st.human], IF isActiveTurn /\ Len(acc) > 0 THEN ActiveTurnAIs(base, acc) ELSE st.ais)

\* the useMemo body: { messages: finalMessages, intermediateGroups: intermediateGroupsMap }
Reconcile(msgs, opt, acc, persisted, loading) == LET base == BaseMessages(msgs, opt) st0 == [final |-> <<>>, groups |-> PreSeed(base, acc, persisted, loading), human |-> 0, ais |-> <<>>] st == LastTurn(base, acc, TurnScan(base, 1, st0)) IN [finalMessages |-> st.final, intermediateGroups |-> st.groups]

\* ---------------------------------------------------------------- effects
\* faulty variant of OptimisticClearEffect: stream.error is not looked at
OptimisticClearOnEchoOnly == IF optimisticMessage # NULL /\ (\E i \in DOMAIN messages : messages[i].id = optimisticMessage.id) THEN NULL ELSE optimisticMessage

\* "Clear optimistic message when it appears in the stream or on error"
OptimisticClearEffect == IF optimisticMessage # NULL /\ ((\E i \in DOMAIN messages : messages[i].id = optimisticMessage.id) \/ error) THEN NULL ELSE optimisticMessage

\* the intermediates the persist effect collects
PersistIntermediates(acc, msgs) == SelectSeq(acc, LAMBDA m : m.id \notin Ids(msgs))

\* faulty variant of PersistEffect: without the lastHumanIndex >= 0 guard, the entry is written under an undefined key
PersistEffectUnguarded == LET lhi == FindLastHumanIndex(messages) intermediates == PersistIntermediates(streamedMessages, messages) IN IF Len(intermediates) > 0 THEN GroupsSet(persistedIntermediateGroups, IF lhi = 0 THEN NoId ELSE messages[lhi].id, intermediates) ELSE persistedIntermediateGroups

\* "Persist intermediate groups when streaming completes": the new persistedIntermediateGroups
PersistEffect == LET lhi == FindLastHumanIndex(messages) intermediates == PersistIntermediates(streamedMessages, messages) IN IF lhi # 0 /\ messages[lhi].id # NoId /\ Len(intermediates) > 0 THEN GroupsSet(persistedIntermediateGroups, messages[lhi].id, intermediates) ELSE persistedIntermediateGroups

\* faulty variant of Accumulate: an id the accumulator already holds is skipped, its content is not replaced
RECURSIVE AccumulateNewOnly(_, _, _, _)
AccumulateNewOnly(acc, msgs, lhi, i) == IF i > Len(msgs) THEN acc ELSE AccumulateNewOnly(IF i > lhi /\ msgs[i].id # NoId /\ IsAiOrTool(msgs[i]) /\ msgs[i].id \notin Ids(acc) THEN Append(acc, msgs[i]) ELSE acc, msgs, lhi, i + 1)

\* stream.messages.forEach(...) of the accumulate effect, from position i on
RECURSIVE Accumulate(_, _, _, _)
Accumulate(acc, msgs, lhi, i) == IF i > Len(msgs) THEN acc ELSE Accumulate(IF i > lhi /\ msgs[i].id # NoId /\ IsAiOrTool(msgs[i]) THEN MapSet(acc, msgs[i]) ELSE acc, msgs, lhi, i + 1)

\* faulty variant of AccumulateEffect: without the early return on a placeholder the stream does not show yet
AccumulateEffectUnguarded == Accumulate(streamedMessages, messages, FindLastHumanIndex(messages), 1)

\* "Capture and accumulate all messages during streaming": the new streamedMessages
AccumulateEffect == LET lhi == FindLastHumanIndex(messages) lastHumanId == IF lhi = 0 THEN NoId ELSE messages[lhi].id IN IF optimisticMessage # NULL /\ lastHumanId # optimisticMessage.id THEN streamedMessages ELSE Accumulate(streamedMessages, messages, lhi, 1)

\* faulty variant of PersistClear: the accumulator is not cleared after persisting
PersistClearNever == streamedMessages

\* the persist effect's streamedMessages: setStreamedMessages(new Map()) once streaming is over
PersistClear == IF ~isLoading /\ Len(streamedMessages) > 0 THEN <<>> ELSE streamedMessages

\* one render of Thread: the hook state and the stream context values it sees, and the useMemo result
RenderThread(m, l, e, a, p, o, t, c, r) == /\ messages' = m
                                           /\ isLoading' = l
                                           /\ error' = e
                                           /\ streamedMessages' = a
                                           /\ persistedIntermediateGroups' = p
                                           /\ optimisticMessage' = o
                                           /\ threadId' = t
                                           /\ captured' = c
                                           /\ regenerated' = r
                                           /\ view' = Reconcile(m, o, a, p, l)

\* a render of Thread that leaves the other parts as they are
Render(m, l, e, a, p, o, t, c, r) == RenderThread(m, l, e, a, p, o, t, c, r) /\ UNCHANGED besidesThread

\* history of the accumulator a the effects produce: for each entry the most recent human message of
\* the stream's sequence when the accumulate effect last set it
CaptureHumans(a) == [k \in DOMAIN a |-> IF a # streamedMessages /\ (\E i \in DOMAIN messages : i > FindLastHumanIndex(messages) /\ IsAiOrTool(messages[i]) /\ messages[i].id = a[k].id) THEN LastHumanId(messages) ELSE captured.at[k]]

\* the record of the last freeze is dropped, the history of the accumulator's entries is kept
CaptureKept == [NoCapture EXCEPT !.at = captured.at]

\* all passive effects of one commit, run against the values of that render; the queued state
\* updates give the next render, whose effects run in turn if a dependency changed
RunEffects == /\ effectsPending
              /\ LET o == OptimisticClearEffect p == IF ~isLoading /\ Len(streamedMessages) > 0 THEN PersistEffect ELSE persistedIntermediateGroups a == IF isLoading THEN AccumulateEffect ELSE PersistClear c == IF ~isLoading /\ Len(streamedMessages) > 0 THEN [human |-> LastHumanId(messages), ids |-> IdSeq(streamedMessages), at |-> <<>>] ELSE [captured EXCEPT !.at = CaptureHumans(a)] IN /\ Render(messages, isLoading, error, a, p, o, threadId, c, regenerated)
                                                                                                                                                                                                                                                                                                                                                                            /\ effectsPending' = (<<a, p, o>> # <<streamedMessages, persistedIntermediateGroups, optimisticMessage>>)

\* ----------------------------------------------------------- user handlers
\* handleSubmit; hasInput is input.trim().length > 0 || contentBlocks.length > 0, h the uuidv4() id.
\* stream.submit makes streaming active and clears the stream error; projected tells whether the
\* stream context shows the submitted message at once (optimisticValues) or still the old sequence
\* faulty variant of HandleSubmit: the early return does not look at isLoading
HandleSubmitWhileLoading(h, hasInput, projected) == /\ ~effectsPending
                                                    /\ h \notin Ids(messages) \cup DOMAIN persistedIntermediateGroups
                                                    /\ IF ~hasInput THEN UNCHANGED vars ELSE /\ Render(IF projected /\ Len(messages) < MaxLen THEN Append(messages, Msg(h, 1)) ELSE messages, TRUE, FALSE, <<>>, persistedIntermediateGroups, Msg(h, 1), threadId, NoCapture, NoRegeneration)
                                                                                             /\ effectsPending' = TRUE

HandleSubmit(h, hasInput, projected) == /\ ~effectsPending
                                        /\ h \notin Ids(messages) \cup DOMAIN persistedIntermediateGroups
                                        /\ IF ~hasInput \/ isLoading THEN UNCHANGED vars ELSE /\ Render(IF projected /\ Len(messages) < MaxLen THEN Append(messages, Msg(h, 1)) ELSE messages, TRUE, FALSE, <<>>, persistedIntermediateGroups, Msg(h, 1), threadId, NoCapture, NoRegeneration)
                                                                                              /\ effectsPending' = TRUE

\* id of the message rendered as the answer of the most recent turn of the stream's sequence (NoId: none)
LastFinalId == LET p == FindLastHumanIndex(view.finalMessages) IN IF p # 0 /\ p < Len(view.finalMessages) /\ view.finalMessages[p].id = LastHumanId(messages) THEN view.finalMessages[p + 1].id ELSE NoId

\* what regenerated records of a request: the turn and its final message, for a request on a completed
\* turn that consists of its human message and that one answer
RegenerationOf == IF ~isLoading /\ LastHumanId(messages) # NoId /\ LastFinalId # NoId /\ IdSeq(SubSeq(messages, FindLastHumanIndex(messages) + 1, Len(messages))) = <<LastFinalId>> /\ LastHumanId(messages) \notin DOMAIN persistedIntermediateGroups THEN [human |-> LastHumanId(messages), prev |-> LastFinalId] ELSE NoRegeneration

\* handleRegenerate, offered on a rendered assistant message: stream.submit(undefined, {checkpoint})
HandleRegenerate == /\ ~effectsPending
                    /\ \E i \in DOMAIN view.finalMessages : IsAiOrTool(view.finalMessages[i])
                    /\ Render(messages, TRUE, FALSE, streamedMessages, persistedIntermediateGroups, optimisticMessage, threadId, CaptureKept, RegenerationOf)
                    /\ effectsPending' = TRUE

\* setThreadId of Thread (handed to ThreadHistory): every "New chat" button calls setThreadId(null);
\* the stream context of the new thread is idle and empty. The button of ThreadHistory (fromHistory)
\* calls setIsTemporaryMode(false) first, the two buttons of Thread do so if a thread is open
NewChat(fromHistory) == /\ ~effectsPending
                        /\ RenderThread(<<>>, FALSE, FALSE, <<>>, EmptyGroups, NULL, NoThread, NoCapture, NoRegeneration)
                        /\ effectsPending' = TRUE
                        /\ isTemporaryMode' = (IF fromHistory \/ threadId # NoThread THEN FALSE ELSE isTemporaryMode)
                        /\ leftWhileTemporary' = (threadId # NoThread /\ isTemporaryMode)
                        /\ UNCHANGED <<submittedMetadata, besidesThreadAndMode>>

\* faulty variant of SelectThread: the row's onClick without setIsTemporaryMode(false)
SelectThreadKeepingMode(t) == /\ ~effectsPending
                              /\ t # threadId
                              /\ RenderThread(<<>>, FALSE, FALSE, streamedMessages, persistedIntermediateGroups, optimisticMessage, t, CaptureKept, NoRegeneration)
                              /\ effectsPending' = TRUE
                              /\ leftWhileTemporary' = (threadId # NoThread /\ isTemporaryMode)
                              /\ UNCHANGED <<isTemporaryMode, submittedMetadata, besidesThreadAndMode>>

\* ThreadList row onClick: setIsTemporaryMode(false), then setThreadId of useQueryState("threadId"),
\* the hook state of Thread is not touched
SelectThread(t) == /\ ~effectsPending
                   /\ t # threadId
                   /\ RenderThread(<<>>, FALSE, FALSE, streamedMessages, persistedIntermediateGroups, optimisticMessage, t, CaptureKept, NoRegeneration)
                   /\ effectsPending' = TRUE
                   /\ isTemporaryMode' = FALSE
                   /\ leftWhileTemporary' = (threadId # NoThread /\ isTemporaryMode)
                   /\ UNCHANGED <<submittedMetadata, besidesThreadAndMode>>

\* ThreadList handleDelete(id) of the open thread: setIsTemporaryMode(false) and setThreadId(null) of
\* useQueryState("threadId")
DeleteOpenThread == /\ ~effectsPending
                    /\ threadId # NoThread
                    /\ RenderThread(<<>>, FALSE, FALSE, streamedMessages, persistedIntermediateGroups, optimisticMessage, NoThread, CaptureKept, NoRegeneration)
                    /\ effectsPending' = TRUE
                    /\ isTemporaryMode' = FALSE
                    /\ leftWhileTemporary' = isTemporaryMode
                    /\ UNCHANGED <<submittedMetadata, besidesThreadAndMode>>

\* ------------------------------------------------ temporary mode and metadata
\* the text of the input field: a sequence of characters, 0 stands for a blank and every other
\* character is written as its position in the untrimmed body
Blanks(n) == [i \in 1..n |-> 0]

Body(n, inner) == [i \in 1..n |-> IF inner /\ i = 2 /\ n > 2 THEN 0 ELSE i]

InputTexts == {Blanks(l) \o Body(n, inner) \o Blanks(r) : l \in 0..1, r \in 0..1, n \in {0, 1, 3, TitleLength - 1, TitleLength, TitleLength + 1}, inner \in BOOLEAN}

\* String.prototype.trim on a text
RECURSIVE TrimStart(_)
TrimStart(s) == IF Len(s) > 0 /\ s[1] = 0 THEN TrimStart(Tail(s)) ELSE s

RECURSIVE TrimEnd(_)
TrimEnd(s) == IF Len(s) > 0 /\ s[Len(s)] = 0 THEN TrimEnd(SubSeq(s, 1, Len(s) - 1)) ELSE s

Trim(s) == TrimEnd(TrimStart(s))

\* String.prototype.slice(0, n)
SliceTo(s, n) == IF Len(s) <= n THEN s ELSE SubSeq(s, 1, n)

\* no stream.submit call yet, and the metadata option undefined; thread is the thread the submission
\* belongs to, null until the stream context reports the one it has created
NotSubmittedMetadata == [sent |-> FALSE, thread |-> NoThread, defined |-> FALSE, gcp_iap_uid |-> FALSE, temporary |-> "undefined", hasTitle |-> FALSE, title |-> <<>>]

\* faulty variant of MetadataOf: temporary is set whenever temporary mode is on
MetadataOfAnyThread(input, hasUid) == LET uid == threadId = NoThread /\ hasUid temp == isTemporaryMode titled == threadId = NoThread /\ Len(Trim(input)) > 0 IN [sent |-> TRUE, thread |-> threadId, defined |-> uid \/ temp \/ titled, gcp_iap_uid |-> uid, temporary |-> IF temp THEN "true" ELSE "undefined", hasTitle |-> titled, title |-> IF titled THEN SliceTo(Trim(input), TitleLength) ELSE <<>>]

\* the metadata object handleSubmit builds (its keys gcp_iap_uid, temporary and title) and the option
\* it passes: the object if it has a key, undefined otherwise
MetadataOf(input, hasUid) == LET uid == threadId = NoThread /\ hasUid temp == threadId = NoThread /\ isTemporaryMode titled == threadId = NoThread /\ Len(Trim(input)) > 0 IN [sent |-> TRUE, thread |-> threadId, defined |-> uid \/ temp \/ titled, gcp_iap_uid |-> uid, temporary |-> IF temp THEN "true" ELSE "undefined", hasTitle |-> titled, title |-> IF titled THEN SliceTo(Trim(input), TitleLength) ELSE <<>>]

\* handleSubmit as far as the metadata of its stream.submit call goes; hasBlocks is
\* contentBlocks.length > 0, hasUid tells whether gcpIapUid is set
HandleSubmitMetadata(input, hasBlocks, hasUid) == /\ ~effectsPending
                                                  /\ IF (Len(Trim(input)) = 0 /\ ~hasBlocks) \/ isLoading THEN UNCHANGED vars ELSE /\ submittedMetadata' = MetadataOf(input, hasUid)
                                                                                                                                    /\ leftWhileTemporary' = FALSE
                                                                                                                                    /\ UNCHANGED <<isTemporaryMode, besidesMode>>

\* the "Temporary Chat" switch: rendered with onToggle = () => {} while a thread is open
ToggleTemporary == /\ ~effectsPending
                   /\ IF threadId # NoThread THEN UNCHANGED vars ELSE /\ isTemporaryMode' = ~isTemporaryMode
                                                                      /\ leftWhileTemporary' = FALSE
                                                                      /\ UNCHANGED <<submittedMetadata, besidesMode>>

\* the stream context reports the id of the thread a submission has created (onThreadId of the
\* stream provider): setThreadId(id) of Thread
ThreadCreated(t) == /\ ~effectsPending
                    /\ threadId = NoThread
                    /\ submittedMetadata.sent
                    /\ submittedMetadata.thread = NoThread
                    /\ RenderThread(messages, isLoading, error, <<>>, EmptyGroups, NULL, t, captured, regenerated)
                    /\ effectsPending' = TRUE
                    /\ submittedMetadata' = [submittedMetadata EXCEPT !.thread = t]
                    /\ leftWhileTemporary' = FALSE
                    /\ UNCHANGED <<isTemporaryMode, besidesThreadAndMode>>

InitMode == isTemporaryMode = FALSE /\ submittedMetadata = NotSubmittedMetadata /\ leftWhileTemporary = FALSE

\* ------------------------------------------- stream context notifications
\* the stream appends a message to its sequence while streaming
StoreAppend(m) == /\ ~effectsPending
                  /\ isLoading
                  /\ Len(messages) < MaxLen
                  /\ m.id = NoId \/ m.id \notin Ids(messages)
                  /\ Render(Append(messages, m), isLoading, error, streamedMessages, persistedIntermediateGroups, optimisticMessage, threadId, captured, regenerated)
                  /\ effectsPending' = TRUE

\* the stream removes an assistant/tool message from its sequence
StoreDrop(i) == /\ ~effectsPending
                /\ i \in DOMAIN messages
                /\ IsAiOrTool(messages[i])
                /\ Render([j \in 1..(Len(messages) - 1) |-> IF j < i THEN messages[j] ELSE messages[j + 1]], isLoading, error, streamedMessages, persistedIntermediateGroups, optimisticMessage, threadId, captured, regenerated)
                /\ effectsPending' = TRUE

\* the stream replaces the content of an assistant message (its text grows), keeping its id
StoreRewrite(i) == /\ ~effectsPending
                   /\ isLoading
                   /\ i \in DOMAIN messages
                   /\ messages[i].type = "ai"
                   /\ messages[i].id # NoId
                   /\ messages[i].v < MaxVersion
                   /\ Render([messages EXCEPT ![i].v = @ + 1], isLoading, error, streamedMessages, persistedIntermediateGroups, optimisticMessage, threadId, captured, regenerated)
                   /\ effectsPending' = TRUE

\* streaming ends (completion or stream.stop()), with or without a terminal error
StoreFinish(err) == /\ ~effectsPending
                    /\ isLoading
                    /\ Render(messages, FALSE, err, streamedMessages, persistedIntermediateGroups, optimisticMessage, threadId, captured, regenerated)
                    /\ effectsPending' = TRUE

\* ----------------------------------------------------- submitted requests
\* messages as the request handlers read them: calls is tool_calls of an assistant message (their ids),
\* call is tool_call_id of a tool message
HumanInput == [type |-> "human", calls |-> <<>>, call |-> "none"]

AiWith(calls) == [type |-> "ai", calls |-> calls, call |-> "none"]

ToolResult(c) == [type |-> "tool", calls |-> <<>>, call |-> c]

ToolCallLists == {<<>>, <<"c1">>, <<"c2">>, <<"c1", "c2">>}

ToolMsgs == {HumanInput} \cup {AiWith(cs) : cs \in ToolCallLists} \cup {ToolResult(c) : c \in CallIds}

\* s holds a tool message for the tool call c
Answered(s, c) == \E j \in DOMAIN s : s[j].type = "tool" /\ s[j].call = c

\* a sequence the stream can show: a tool message answers a tool call of an earlier assistant message,
\* no tool call id is issued twice and no tool call is answered twice
WellFormedHistory(s) == /\ \A i \in DOMAIN s : s[i].type = "tool" => \E j \in 1..(i - 1) : \E k \in DOMAIN s[j].calls : s[j].calls[k] = s[i].call
                        /\ \A i, j \in DOMAIN s : i # j => /\ \A k \in DOMAIN s[i].calls : \A l \in DOMAIN s[j].calls : s[i].calls[k] # s[j].calls[l]
                                                            /\ (s[i].type = "tool" /\ s[j].type = "tool") => s[i].call # s[j].call

ToolHistories == {s \in UNION {[1..n -> ToolMsgs] : n \in 0..MaxHistory} : WellFormedHistory(s)}

NoRequest == [sent |-> FALSE, messages |-> <<>>]

\* the placeholder tool results for the tool calls of s[i].calls[k] onwards that s does not answer
RECURSIVE MissingResponses(_, _, _)
MissingResponses(s, i, k) == IF i > Len(s) THEN <<>> ELSE IF k > Len(s[i].calls) THEN MissingResponses(s, i + 1, 1) ELSE (IF Answered(s, s[i].calls[k]) THEN <<>> ELSE <<ToolResult(s[i].calls[k])>>) \o MissingResponses(s, i, k + 1)

\* ensureToolCallsHaveResponses(stream.messages) of lib/ensure-tool-responses
EnsureToolCallsHaveResponses(s) == MissingResponses(s, 1, 1)

\* the stream.submit call of handleSubmit: { messages: [...toolMessages, newHumanMessage] }
HandleSubmitRequest(hasInput) == IF ~hasInput \/ isLoading THEN UNCHANGED vars ELSE /\ request' = [sent |-> TRUE, messages |-> EnsureToolCallsHaveResponses(toolHistory) \o <<HumanInput>>]
                                                                                    /\ UNCHANGED <<toolHistory, besidesRequest>>

\* the stream.submit call of handleRegenerate: stream.submit(undefined, { checkpoint })
HandleRegenerateRequest == /\ request' = [sent |-> TRUE, messages |-> <<>>]
                           /\ UNCHANGED <<toolHistory, besidesRequest>>

\* ------------------------------------------- the sequence a submission shows
\* ids of the messages of stream.messages, by position, and of the submitted human message
HistoryIds == <<"m1", "m2", "m3", "m4", "m5">>

NewHumanId == "h1"

\* `${DO_NOT_RENDER_ID_PREFIX}${uuid}`: the id of the placeholder result for the tool call c
DoNotRenderId(c) == IF c = "c1" THEN "do-not-render-c1" ELSE "do-not-render-c2"

\* id.startsWith(DO_NOT_RENDER_ID_PREFIX)
StartsWithDoNotRender(id) == id \in {DoNotRenderId(c) : c \in CallIds}

\* optimisticValues of handleSubmit: [...(prev.messages ?? []), ...toolMessages, newHumanMessage],
\* as the messages the reconciler reads
ProjectedMessages(s) == LET toolMessages == EnsureToolCallsHaveResponses(s) IN [i \in DOMAIN s |-> [id |-> HistoryIds[i], type |-> s[i].type, v |-> 1]] \o [k \in DOMAIN toolMessages |-> [id |-> DoNotRenderId(toolMessages[k].call), type |-> "tool", v |-> 1]] \o <<[id |-> NewHumanId, type |-> "human", v |-> 1]>>

\* messages.filter((m) => !m.id?.startsWith(DO_NOT_RENDER_ID_PREFIX)) of the transcript
Transcript(final) == SelectSeq(final, LAMBDA m : ~StartsWithDoNotRender(m.id))

NotProjected == [sent |-> FALSE, messages |-> <<>>, view |-> [finalMessages |-> <<>>, intermediateGroups |-> EmptyGroups], transcript |-> <<>>]

\* handleSubmit on an idle thread whose stream shows toolHistory: the accumulator is emptied, the
\* placeholder is the new human message, streaming is active and the stream shows the projected
\* sequence; view is the reconciler output of that render and transcript what is rendered of it
HandleSubmitProjection(hasInput) == /\ ~projection.sent
                                    /\ IF ~hasInput \/ isLoading THEN UNCHANGED vars ELSE LET shown == ProjectedMessages(toolHistory) out == Reconcile(shown, [id |-> NewHumanId, type |-> "human", v |-> 1], <<>>, EmptyGroups, TRUE) IN /\ projection' = [sent |-> TRUE, messages |-> shown, view |-> out, transcript |-> Transcript(out.finalMessages)]
                                                                                                                                                                                                                                            /\ UNCHANGED <<besidesSubmit>>

InitSubmit == projection = NotProjected

\* -------------------------------------------------------- thread provider
NoToasts == [success |-> 0, failure |-> 0, timeout |-> 0]

\* toast.success / toast.error of operation op: the generic failure text or the timeout text
Toast(op, kind) == [toasts EXCEPT ![op][kind] = @ + 1]

\* prevThreads.filter((t) => t.thread_id !== threadId)
WithoutThread(ts, t) == [x \in (DOMAIN ts) \ {t} |-> ts[x]]

\* prevThreads.map(...): the title of thread t is replaced if the list holds it
WithTitle(ts, t, title) == [x \in DOMAIN ts |-> IF x = t THEN title ELSE ts[x]]

\* the invocations of all three operations that started a request
CallCount == Len(deleteCalls) + Len(duplicateCalls) + Len(renameCalls)

\* a deleteThread invocation past its guards: it waits on Promise.race, its request is in flight
DeleteCall(t) == [id |-> t, waiting |-> TRUE, request |-> "inflight"]

\* deleteThread(threadId) up to its await; hasApiUrl is !!apiUrl
DeleteThread(t, hasApiUrl) == /\ CallCount < MaxCalls
                              /\ IF ~hasApiUrl \/ t \in deleteThreadSees THEN UNCHANGED vars ELSE /\ deletingThreadIds' = deletingThreadIds \cup {t}
                                                                                                  /\ deleteCalls' = Append(deleteCalls, DeleteCall(t))
                                                                                                  /\ UNCHANGED <<threads, deleteThreadSees, toasts, duplicateVars, renameVars, besidesProvider>>

\* faulty variant of DeleteRequestSucceeds: the continuation runs also after the race was lost to the timer
DeleteRequestSucceedsLate(k) == /\ k \in DOMAIN deleteCalls
                                /\ deleteCalls[k].request = "inflight"
                                /\ deleteCalls' = [deleteCalls EXCEPT ![k] = [id |-> @.id, waiting |-> FALSE, request |-> "ok"]]
                                /\ threads' = WithoutThread(threads, deleteCalls[k].id) /\ toasts' = Toast("delete", "success") /\ deletingThreadIds' = deletingThreadIds \ {deleteCalls[k].id}
                                /\ UNCHANGED <<deleteThreadSees, duplicateVars, renameVars, besidesProvider>>

\* client.threads.delete resolves: if the invocation still waits, the try block goes on and finally runs
DeleteRequestSucceeds(k) == /\ k \in DOMAIN deleteCalls
                            /\ deleteCalls[k].request = "inflight"
                            /\ deleteCalls' = [deleteCalls EXCEPT ![k] = [id |-> @.id, waiting |-> FALSE, request |-> "ok"]]
                            /\ IF deleteCalls[k].waiting THEN threads' = WithoutThread(threads, deleteCalls[k].id) /\ toasts' = Toast("delete", "success") /\ deletingThreadIds' = deletingThreadIds \ {deleteCalls[k].id} ELSE UNCHANGED <<threads, toasts, deletingThreadIds>>
                            /\ UNCHANGED <<deleteThreadSees, duplicateVars, renameVars, besidesProvider>>

\* client.threads.delete rejects: if the invocation still waits, the catch block and finally run
DeleteRequestFails(k) == /\ k \in DOMAIN deleteCalls
                         /\ deleteCalls[k].request = "inflight"
                         /\ deleteCalls' = [deleteCalls EXCEPT ![k] = [id |-> @.id, waiting |-> FALSE, request |-> "err"]]
                         /\ IF deleteCalls[k].waiting THEN toasts' = Toast("delete", "failure") /\ deletingThreadIds' = deletingThreadIds \ {deleteCalls[k].id} ELSE UNCHANGED <<toasts, deletingThreadIds>>
                         /\ UNCHANGED <<threads, deleteThreadSees, duplicateVars, renameVars, besidesProvider>>

\* the setTimeout of the invocation fires first: the race rejects with "Request timeout"
DeleteTimeout(k) == /\ k \in DOMAIN deleteCalls
                    /\ deleteCalls[k].waiting
                    /\ deleteCalls' = [deleteCalls EXCEPT ![k].waiting = FALSE]
                    /\ toasts' = Toast("delete", "timeout")
                    /\ deletingThreadIds' = deletingThreadIds \ {deleteCalls[k].id}
                    /\ UNCHANGED <<threads, deleteThreadSees, duplicateVars, renameVars, besidesProvider>>

\* a duplicateThread invocation past its guards; refresh is the getThreads() call made after the race was won
DuplicateCall(t) == [id |-> t, waiting |-> TRUE, request |-> "inflight", refresh |-> "none"]

\* duplicateThread(threadId) up to its first await
DuplicateThread(t, hasApiUrl) == /\ CallCount < MaxCalls
                                 /\ IF ~hasApiUrl \/ t \in duplicateThreadSees THEN UNCHANGED vars ELSE /\ duplicatingThreadIds' = duplicatingThreadIds \cup {t}
                                                                                                        /\ duplicateCalls' = Append(duplicateCalls, DuplicateCall(t))
                                                                                                        /\ UNCHANGED <<threads, toasts, duplicateThreadSees, deleteVars, renameVars, besidesProvider>>

\* client.threads.copy resolves: if the invocation still waits, it goes on to await getThreads()
DuplicateRequestSucceeds(k) == /\ k \in DOMAIN duplicateCalls
                               /\ duplicateCalls[k].request = "inflight"
                               /\ duplicateCalls' = [duplicateCalls EXCEPT ![k] = [id |-> @.id, waiting |-> FALSE, request |-> "ok", refresh |-> IF @.waiting THEN "inflight" ELSE "none"]]
                               /\ UNCHANGED <<threads, toasts, duplicatingThreadIds, duplicateThreadSees, deleteVars, renameVars, besidesProvider>>

\* faulty variant of DuplicateRequestFails: the catch block runs also after the race was lost to the timer
DuplicateRequestFailsLate(k) == /\ k \in DOMAIN duplicateCalls
                                /\ duplicateCalls[k].request = "inflight"
                                /\ duplicateCalls' = [duplicateCalls EXCEPT ![k] = [id |-> @.id, waiting |-> FALSE, request |-> "err", refresh |-> "none"]]
                                /\ toasts' = Toast("duplicate", "failure") /\ duplicatingThreadIds' = duplicatingThreadIds \ {duplicateCalls[k].id}
                                /\ UNCHANGED <<threads, deleteVars, duplicateThreadSees, renameVars, besidesProvider>>

\* client.threads.copy rejects: if the invocation still waits, the catch block and finally run
DuplicateRequestFails(k) == /\ k \in DOMAIN duplicateCalls
                            /\ duplicateCalls[k].request = "inflight"
                            /\ duplicateCalls' = [duplicateCalls EXCEPT ![k] = [id |-> @.id, waiting |-> FALSE, request |-> "err", refresh |-> "none"]]
                            /\ IF duplicateCalls[k].waiting THEN toasts' = Toast("duplicate", "failure") /\ duplicatingThreadIds' = duplicatingThreadIds \ {duplicateCalls[k].id} ELSE UNCHANGED <<toasts, duplicatingThreadIds>>
                            /\ UNCHANGED <<threads, deleteVars, duplicateThreadSees, renameVars, besidesProvider>>

\* the setTimeout of the invocation fires while it waits on the race
DuplicateTimeout(k) == /\ k \in DOMAIN duplicateCalls
                       /\ duplicateCalls[k].waiting
                       /\ duplicateCalls' = [duplicateCalls EXCEPT ![k].waiting = FALSE]
                       /\ toasts' = Toast("duplicate", "timeout")
                       /\ duplicatingThreadIds' = duplicatingThreadIds \ {duplicateCalls[k].id}
                       /\ UNCHANGED <<threads, deleteVars, duplicateThreadSees, renameVars, besidesProvider>>

\* await getThreads() resolves with the list the server (or the missing-assistantId early return) gives:
\* setThreads(updatedThreads), toast.success, finally
DuplicateRefreshSucceeds(k, list) == /\ k \in DOMAIN duplicateCalls
                                     /\ duplicateCalls[k].refresh = "inflight"
                                     /\ duplicateCalls' = [duplicateCalls EXCEPT ![k].refresh = "ok"]
                                     /\ threads' = list
                                     /\ toasts' = Toast("duplicate", "success")
                                     /\ duplicatingThreadIds' = duplicatingThreadIds \ {duplicateCalls[k].id}
                                     /\ UNCHANGED <<deleteVars, duplicateThreadSees, renameVars, besidesProvider>>

\* await getThreads() rejects (client.threads.search failed): the catch block and finally run
DuplicateRefreshFails(k) == /\ k \in DOMAIN duplicateCalls
                            /\ duplicateCalls[k].refresh = "inflight"
                            /\ duplicateCalls' = [duplicateCalls EXCEPT ![k].refresh = "err"]
                            /\ toasts' = Toast("duplicate", "failure")
                            /\ duplicatingThreadIds' = duplicatingThreadIds \ {duplicateCalls[k].id}
                            /\ UNCHANGED <<threads, deleteVars, duplicateThreadSees, renameVars, besidesProvider>>

\* a renameThread invocation past its guards
RenameCall(t, title) == [id |-> t, title |-> title, waiting |-> TRUE, request |-> "inflight"]

\* renameThread(threadId, title) up to its await
RenameThread(t, title, hasApiUrl) == /\ CallCount < MaxCalls
                                     /\ IF ~hasApiUrl \/ t \in renameThreadSees THEN UNCHANGED vars ELSE /\ renamingThreadIds' = renamingThreadIds \cup {t}
                                                                                                         /\ renameCalls' = Append(renameCalls, RenameCall(t, title))
                                                                                                         /\ UNCHANGED <<threads, toasts, renameThreadSees, deleteVars, duplicateVars, besidesProvider>>

\* client.threads.update resolves: if the invocation still waits, the try block goes on and finally runs
RenameRequestSucceeds(k) == /\ k \in DOMAIN renameCalls
                            /\ renameCalls[k].request = "inflight"
                            /\ renameCalls' = [renameCalls EXCEPT ![k].waiting = FALSE, ![k].request = "ok"]
                            /\ IF renameCalls[k].waiting THEN threads' = WithTitle(threads, renameCalls[k].id, renameCalls[k].title) /\ toasts' = Toast("rename", "success") /\ renamingThreadIds' = renamingThreadIds \ {renameCalls[k].id} ELSE UNCHANGED <<threads, toasts, renamingThreadIds>>
                            /\ UNCHANGED <<deleteVars, duplicateVars, renameThreadSees, besidesProvider>>

\* faulty variant of RenameRequestFails: the finally block is left out, the marker stays
RenameRequestFailsNoFinally(k) == /\ k \in DOMAIN renameCalls
                                  /\ renameCalls[k].request = "inflight"
                                  /\ renameCalls' = [renameCalls EXCEPT ![k].waiting = FALSE, ![k].request = "err"]
                                  /\ IF renameCalls[k].waiting THEN toasts' = Toast("rename", "failure") ELSE UNCHANGED toasts
                                  /\ UNCHANGED <<threads, renamingThreadIds, deleteVars, duplicateVars, renameThreadSees, besidesProvider>>

\* client.threads.update rejects: if the invocation still waits, the catch block and finally run
RenameRequestFails(k) == /\ k \in DOMAIN renameCalls
                         /\ renameCalls[k].request = "inflight"
                         /\ renameCalls' = [renameCalls EXCEPT ![k].waiting = FALSE, ![k].request = "err"]
                         /\ IF renameCalls[k].waiting THEN toasts' = Toast("rename", "failure") /\ renamingThreadIds' = renamingThreadIds \ {renameCalls[k].id} ELSE UNCHANGED <<toasts, renamingThreadIds>>
                         /\ UNCHANGED <<threads, deleteVars, duplicateVars, renameThreadSees, besidesProvider>>

\* the setTimeout of the invocation fires first
RenameTimeout(k) == /\ k \in DOMAIN renameCalls
                    /\ renameCalls[k].waiting
                    /\ renameCalls' = [renameCalls EXCEPT ![k].waiting = FALSE]
                    /\ toasts' = Toast("rename", "timeout")
                    /\ renamingThreadIds' = renamingThreadIds \ {renameCalls[k].id}
                    /\ UNCHANGED <<threads, deleteVars, duplicateVars, renameThreadSees, besidesProvider>>

\* the in-flight sets of the provider state and the ones its callbacks closed over at the last render
Markers == <<deletingThreadIds, duplicatingThreadIds, renamingThreadIds>>

Seen == <<deleteThreadSees, duplicateThreadSees, renameThreadSees>>

\* ThreadProvider renders with the queued state updates: useCallback makes callbacks that close over
\* the new deletingThreadIds, duplicatingThreadIds and renamingThreadIds
ProviderRender == /\ Seen # Markers
                  /\ deleteThreadSees' = deletingThreadIds
                  /\ duplicateThreadSees' = duplicatingThreadIds
                  /\ renameThreadSees' = renamingThreadIds
                  /\ UNCHANGED <<threads, toasts, deletingThreadIds, deleteCalls, duplicatingThreadIds, duplicateCalls, renamingThreadIds, renameCalls, besidesProvider>>

InitProvider == /\ threads = [t \in ListedThreadIds |-> "a"]
                /\ deletingThreadIds = {}
                /\ deleteThreadSees = {}
                /\ deleteCalls = <<>>
                /\ duplicatingThreadIds = {}
                /\ duplicateThreadSees = {}
                /\ duplicateCalls = <<>>
                /\ renamingThreadIds = {}
                /\ renameThreadSees = {}
                /\ renameCalls = <<>>
                /\ toasts = [op \in {"delete", "duplicate", "rename"} |-> NoToasts]

\* ------------------------------------------------------------ error effect
\* stream.error === undefined
NoError == [message |-> "undefined", object |-> 0]

Undefined == "undefined"

\* the error effect body for the error value e: the new lastError.current and whether toast.error is called
ErrorEffect(e) == IF e = NoError THEN [last |-> Undefined, toast |-> FALSE] ELSE IF e.message = "" \/ lastError = e.message THEN [last |-> lastError, toast |-> FALSE] ELSE [last |-> e.message, toast |-> TRUE]

\* the stream context reports a new stream.error value (another object, or undefined): Thread renders
\* and, the dependency having changed, the error effect runs
StreamError(e) == /\ e # streamError
                  /\ Len(errorToasts) < MaxErrorToasts
                  /\ streamError' = e
                  /\ lastError' = ErrorEffect(e).last
                  /\ errorToasts' = IF ErrorEffect(e).toast THEN Append(errorToasts, e.message) ELSE errorToasts
                  /\ periodToasts' = (IF e = NoError \/ e.message # streamError.message THEN 0 ELSE periodToasts) + (IF ErrorEffect(e).toast THEN 1 ELSE 0)
                  /\ UNCHANGED besidesError

InitError == /\ streamError = NoError
             /\ lastError = Undefined
             /\ errorToasts = <<>>
             /\ periodToasts = 0

\* ---------------------------------------------- parsing streamed content
\* a JavaScript value as far as the parsers look at it: its kind, the kind of its thinking member
\* ("none": no such member) and its number of members
Val(kind) == [kind |-> kind, thinking |-> "none", size |-> 0]

NoParse == [ok |-> FALSE, next |-> 0, val |-> Val("undefined")]

\* one JSON value read from position i of s: whether there is one, the position after it, the value
RECURSIVE ParseValue(_, _)
RECURSIVE ParseMembers(_, _, _)
ParseValue(s, i) == IF i > Len(s) THEN NoParse ELSE IF s[i] = "1" THEN [ok |-> TRUE, next |-> i + 1, val |-> Val("number")] ELSE IF s[i] = "s" THEN [ok |-> TRUE, next |-> i + 1, val |-> Val("string")] ELSE IF s[i] = "n" THEN [ok |-> TRUE, next |-> i + 1, val |-> Val("null")] ELSE IF s[i] = "{" THEN (IF i < Len(s) /\ s[i + 1] = "}" THEN [ok |-> TRUE, next |-> i + 2, val |-> Val("object")] ELSE ParseMembers(s, i + 1, Val("object"))) ELSE NoParse

\* the members of an object from position i on, up to its closing brace; a repeated key replaces the earlier one
ParseMembers(s, i, obj) == IF i > Len(s) \/ s[i] \notin {"t:", "k:"} THEN NoParse ELSE LET v == ParseValue(s, i + 1) o == [kind |-> "object", thinking |-> IF s[i] = "t:" THEN v.val.kind ELSE obj.thinking, size |-> obj.size + 1] IN IF ~v.ok \/ v.next > Len(s) THEN NoParse ELSE IF s[v.next] = "}" THEN [ok |-> TRUE, next |-> v.next + 1, val |-> o] ELSE IF s[v.next] = "," THEN ParseMembers(s, v.next + 1, o) ELSE NoParse

\* JSON.parse(s): the value, or a SyntaxError thrown
JsonParse(s) == LET r == ParseValue(s, 1) IN IF r.ok /\ r.next = Len(s) + 1 THEN [threw |-> FALSE, val |-> r.val] ELSE [threw |-> TRUE, val |-> Val("undefined")]

\* the closers parsePartialJson has on its stack after position i of s, d being open before it (-1: a
\* closing brace without an open one); what follows an unclosed quote is inside the string
RECURSIVE OpenBraces(_, _, _)
OpenBraces(s, i, d) == IF i > Len(s) \/ s[i] = "q" THEN d ELSE IF s[i] = "{" THEN OpenBraces(s, i + 1, d + 1) ELSE IF s[i] = "}" THEN (IF d = 0 THEN -1 ELSE OpenBraces(s, i + 1, d - 1)) ELSE OpenBraces(s, i + 1, d)

\* new_s of parsePartialJson: the open string closed, then the closers of the stack
Completed(s) == LET q == {i \in DOMAIN s : s[i] = "q"} cut == IF q = {} THEN s ELSE Append(SubSeq(s, 1, (CHOOSE i \in q : \A j \in q : i <= j) - 1), "s") IN cut \o [k \in 1..OpenBraces(s, 1, 0) |-> "}"]

\* parsePartialJson(s) of @langchain/core: JSON.parse(s) if that works, else JSON.parse of the completed
\* text, null if that fails too or a brace closes nothing
ParsePartialJson(s) == IF ~JsonParse(s).threw THEN JsonParse(s).val ELSE IF OpenBraces(s, 1, 0) = -1 \/ JsonParse(Completed(s)).threw THEN Val("null") ELSE JsonParse(Completed(s)).val

\* a value is truthy: numbers here are non-zero and strings non-empty
Truthy(kind) == kind \in {"number", "string", "object"}

\* parseAnthropicStreamedToolCalls on one tool_use part whose input is the text s: json starts as {},
\* an empty input is falsy and not parsed, else json = parsePartialJson(input) ?? {} (parsePartialJson
\* does not throw on a string)
ParseAnthropicStreamedToolCalls(s) == IF s = <<>> THEN [threw |-> FALSE, args |-> Val("object")] ELSE [threw |-> FALSE, args |-> IF ParsePartialJson(s).kind = "null" THEN Val("object") ELSE ParsePartialJson(s)]

\* the body of try { const parsed = JSON.parse(text); if (parsed.thinking) push(parsed.thinking) }:
\* JSON.parse may throw, and reading a member of null throws; thinking is what was pushed ("none": nothing)
TryThinking(s) == LET r == JsonParse(s) IN IF r.threw \/ r.val.kind = "null" THEN [threw |-> TRUE, thinking |-> "none"] ELSE [threw |-> FALSE, thinking |-> IF Truthy(r.val.thinking) THEN r.val.thinking ELSE "none"]

\* try {...} catch { /* ignore */ }
Caught(r) == IF r.threw THEN [threw |-> FALSE, thinking |-> "none"] ELSE r

\* extractThinkingFromMessage on a message whose content (where = "content"), or whose
\* additional_kwargs.tool_calls[0].function.arguments, is the text s: thinking is null or the joined
\* parts; empty arguments are falsy and not parsed
ExtractThinkingFromMessage(s, where) == LET r == IF where = "arguments" /\ s = <<>> THEN [threw |-> FALSE, thinking |-> "none"] ELSE Caught(TryThinking(s)) IN [threw |-> r.threw, thinking |-> IF r.thinking = "none" THEN "null" ELSE "string"]

NotRun == [fn |-> "none"]

\* rendering an assistant message applies one of the two functions to the text
ParseToolCall == /\ parseResult = NotRun
                 /\ parseResult' = [fn |-> "parseAnthropicStreamedToolCalls", out |-> ParseAnthropicStreamedToolCalls(parseInput)]
                 /\ UNCHANGED <<parseInput, besidesParse>>

ExtractThinking(where) == /\ parseResult = NotRun
                          /\ parseResult' = [fn |-> "extractThinkingFromMessage", where |-> where, out |-> ExtractThinkingFromMessage(parseInput, where)]
                          /\ UNCHANGED <<parseInput, besidesParse>>

InitParse == parseInput = <<>> /\ parseResult = NotRun

\* ------------------------------------------------------------ attachments
SupportedImageTypes == {"image/jpeg", "image/png", "image/gif", "image/webp"}

SupportedFileTypes == SupportedImageTypes \cup {"application/pdf"}

\* String.prototype.startsWith("image/") on the file types followed
StartsWithImage(type) == type \in SupportedImageTypes \cup {"image/svg+xml"}

\* faulty variant of FileToContentBlock: the type is tested by its "image/" prefix, as isBase64ContentBlock does
FileToContentBlockByPrefix(type) == IF ~(StartsWithImage(type) \/ type = "application/pdf") THEN [toast |-> TRUE, rejected |-> TRUE, block |-> [type |-> "none", mimeType |-> type]] ELSE IF StartsWithImage(type) THEN [toast |-> FALSE, rejected |-> FALSE, block |-> [type |-> "image", mimeType |-> type]] ELSE [toast |-> FALSE, rejected |-> FALSE, block |-> [type |-> "file", mimeType |-> "application/pdf"]]

\* fileToContentBlock(file) for a file of the given type: whether toast.error is called, whether the
\* promise is rejected, and the block it resolves with
FileToContentBlock(type) == IF type \notin SupportedFileTypes THEN [toast |-> TRUE, rejected |-> TRUE, block |-> [type |-> "none", mimeType |-> type]] ELSE IF type \in SupportedImageTypes THEN [toast |-> FALSE, rejected |-> FALSE, block |-> [type |-> "image", mimeType |-> type]] ELSE [toast |-> FALSE, rejected |-> FALSE, block |-> [type |-> "file", mimeType |-> "application/pdf"]]

\* contentBlockToMessageContent(block): an image_url part whose data URL carries the mime type, or a
\* file part with mime_type; any other block throws
ContentBlockToMessageContent(block) == IF block.type = "image" /\ block.mimeType # "" THEN [threw |-> FALSE, part |-> [type |-> "image_url", mime |-> block.mimeType]] ELSE IF block.type = "file" /\ block.mimeType # "" THEN [threw |-> FALSE, part |-> [type |-> "file", mime |-> block.mimeType]] ELSE [threw |-> TRUE, part |-> [type |-> "none", mime |-> block.mimeType]]

\* a file is selected (file input, paste or drop of useFileUpload): the block fileToContentBlock
\* resolves with is appended to contentBlocks; a rejection adds nothing
SelectFile(type) == /\ Len(contentBlocks) + uploadToasts < MaxFiles
                    /\ uploadToasts' = uploadToasts + (IF FileToContentBlock(type).toast THEN 1 ELSE 0)
                    /\ contentBlocks' = IF FileToContentBlock(type).rejected THEN contentBlocks ELSE Append(contentBlocks, FileToContentBlock(type).block)
                    /\ UNCHANGED <<submittedContent, besidesUpload>>

NotSubmitted == [sent |-> FALSE, threw |-> FALSE, parts |-> <<>>]

\* the content handleSubmit builds for newHumanMessage: the text part if there is text, then
\* contentBlocks.map(contentBlockToMessageContent); setContentBlocks([]) after stream.submit
HandleSubmitContent(hasText) == IF (~hasText /\ Len(contentBlocks) = 0) \/ isLoading THEN UNCHANGED vars ELSE LET parts == [i \in DOMAIN contentBlocks |-> ContentBlockToMessageContent(contentBlocks[i])] IN IF \E i \in DOMAIN parts : parts[i].threw THEN submittedContent' = [sent |-> FALSE, threw |-> TRUE, parts |-> <<>>] /\ UNCHANGED <<contentBlocks, uploadToasts, besidesUpload>> ELSE /\ submittedContent' = [sent |-> TRUE, threw |-> FALSE, parts |-> (IF hasText THEN <<[type |-> "text", mime |-> "text"]>> ELSE <<>>) \o [i \in DOMAIN parts |-> parts[i].part]]
                                                                                                                                                                                                                                                                                                                                                                         /\ contentBlocks' = <<>>
                                                                                                                                                                                                                                                                                                                                                                         /\ UNCHANGED <<uploadToasts, besidesUpload>>

InitUpload == contentBlocks = <<>> /\ uploadToasts = 0 /\ submittedContent = NotSubmitted

\* ------------------------------------------------------------ token usage
\* a field usage_metadata does not have
Missing == -1

\* usage_metadata of a message; has is false when the message carries none
Usage(i, o, t, c, r) == [has |-> TRUE, input_tokens |-> i, output_tokens |-> o, total_tokens |-> t, cache_read |-> c, reasoning |-> r]

NoUsage == [has |-> FALSE, input_tokens |-> Missing, output_tokens |-> Missing, total_tokens |-> Missing, cache_read |-> Missing, reasoning |-> Missing]

UsageChoices == {NoUsage, Usage(1, 1, 2, 0, 0), Usage(2, 1, 3, 1, 1), Usage(Missing, 2, Missing, Missing, Missing)}

\* messages as the usage code reads them; only assistant messages have a usage_metadata field
UsageAi(u) == [type |-> "ai", id |-> "a", usage |-> u]

UsageTool == [type |-> "tool", id |-> "t", usage |-> NoUsage]

UsageHuman(id) == [type |-> "human", id |-> id, usage |-> NoUsage]

UsageOutputs == {UsageAi(u) : u \in UsageChoices} \cup {UsageTool}

\* the lists the reconciler gives: messages before any human message, then per turn the human message
\* and at most one final message
UsageTurns(id) == {<<UsageHuman(id)>>} \cup {<<UsageHuman(id), m>> : m \in UsageOutputs}

UsageLists == {pre \o t1 \o t2 : pre \in {<<>>, <<UsageAi(Usage(1, 1, 2, 0, 0))>>, <<UsageTool>>}, t1 \in UsageTurns("h1") \cup UsageTurns(NoId), t2 \in {<<>>} \cup UsageTurns("h2")}

UsageGroupLists == UNION {[1..n -> UsageOutputs] : n \in 0..MaxIntermediates}

\* x || 0
OrZero(x) == IF x = Missing THEN 0 ELSE x

NullUsage == [has |-> FALSE, input_tokens |-> 0, output_tokens |-> 0, total_tokens |-> 0, cache_read |-> 0, reasoning |-> 0]

\* faulty variant of CalculateAggregatedUsage: the fields of the last usage found replace the sums
RECURSIVE CalculateLastUsage(_, _, _)
CalculateLastUsage(msgs, i, acc) == IF i > Len(msgs) THEN acc ELSE CalculateLastUsage(msgs, i + 1, IF msgs[i].type = "ai" /\ msgs[i].usage.has THEN [has |-> TRUE, input_tokens |-> OrZero(msgs[i].usage.input_tokens), output_tokens |-> OrZero(msgs[i].usage.output_tokens), total_tokens |-> OrZero(msgs[i].usage.total_tokens), cache_read |-> OrZero(msgs[i].usage.cache_read), reasoning |-> OrZero(msgs[i].usage.reasoning)] ELSE acc)

\* calculateAggregatedUsage(messages): the for loop from position i on, acc holding the five running
\* sums and foundUsage (has); the result is null when has is false
RECURSIVE CalculateAggregatedUsage(_, _, _)
CalculateAggregatedUsage(msgs, i, acc) == IF i > Len(msgs) THEN acc ELSE CalculateAggregatedUsage(msgs, i + 1, IF msgs[i].type = "ai" /\ msgs[i].usage.has THEN [has |-> TRUE, input_tokens |-> acc.input_tokens + OrZero(msgs[i].usage.input_tokens), output_tokens |-> acc.output_tokens + OrZero(msgs[i].usage.output_tokens), total_tokens |-> acc.total_tokens + OrZero(msgs[i].usage.total_tokens), cache_read |-> acc.cache_read + OrZero(msgs[i].usage.cache_read), reasoning |-> acc.reasoning + OrZero(msgs[i].usage.reasoning)] ELSE acc)

\* the while loop that looks for the human message before position index (0: none)
PrecedingHumanIndex(msgs, index) == IF \E j \in 1..(index - 1) : msgs[j].type = "human" THEN CHOOSE j \in 1..(index - 1) : msgs[j].type = "human" /\ \A k \in (j + 1)..(index - 1) : msgs[k].type # "human" ELSE 0

\* the while loop that looks for the next human message after position index (Len + 1: none)
NextHumanIndex(msgs, index) == IF \E j \in (index + 1)..Len(msgs) : msgs[j].type = "human" THEN CHOOSE j \in (index + 1)..Len(msgs) : msgs[j].type = "human" /\ \A k \in (index + 1)..(j - 1) : msgs[k].type # "human" ELSE Len(msgs) + 1

\* aggregatedUsage of the assistant/tool message at position index of the transcript; NullUsage stands
\* for undefined and for null
AggregatedUsage(msgs, index, groups) == LET p == PrecedingHumanIndex(msgs, index) isLastAI == ~\E j \in (index + 1)..(NextHumanIndex(msgs, index) - 1) : msgs[j].type = "ai" IN IF p # 0 /\ isLastAI THEN CalculateAggregatedUsage((IF msgs[p].id # NoId THEN GroupsGet(groups, msgs[p].id) ELSE <<>>) \o <<msgs[index]>>, 1, NullUsage) ELSE NullUsage

\* the transcript renders the assistant/tool message at position index
RenderAssistantMessage(index) == /\ shownAt = 0
                                 /\ index \in DOMAIN usageMessages
                                 /\ usageMessages[index].type # "human"
                                 /\ shownAt' = index
                                 /\ aggregatedUsage' = AggregatedUsage(usageMessages, index, usageGroups)
                                 /\ UNCHANGED <<usageMessages, usageGroups, besidesUsage>>

InitUsage == usageMessages = <<>> /\ usageGroups = EmptyGroups /\ shownAt = 0 /\ aggregatedUsage = NullUsage

\* -------------------------------------------------- temporary-chat cleaner
\* the time of the run and one day, in seconds
Now == 200000

Day == 86400

\* CUTOFF_TIME=$(date -u -v-120S +%s)
CUTOFF_TIME == Now - 120

\* updated_at values: one minute, three minutes, a little less and a little more than a day ago;
\* Unparsed stands for an updated_at that date -j -f does not convert
Unparsed == -1

UpdatedTimes == {Now - 60, Now - 180, Now - (Day - 60), Now - (Day + 60), Unparsed}

\* IS_TEMPORARY: jq -r '.metadata.temporary // "false"'
ListedThreads == [temporary : {"true", "false"}, updated : UpdatedTimes]

\* [ "$IS_TEMPORARY" = "true" ] && [ "$UPDATED_TIMESTAMP" -lt "$CUTOFF_TIME" ]
CleanerSelects(thread) == thread.temporary = "true" /\ thread.updated < CUTOFF_TIME

\* one pass of the while loop. Under set -e a failed conversion of updated_at ends the loop at that
\* thread. Otherwise the DELETE request is sent for a selected thread and the server answers with the
\* given status; it has deleted the thread when it answers 200 or 204
CleanerStep(status) == /\ cleanerAt <= Len(listed)
                       /\ cleanerAt' = IF listed[cleanerAt].updated = Unparsed THEN Len(listed) + 1 ELSE cleanerAt + 1
                       /\ cleanerDeleted' = IF listed[cleanerAt].updated # Unparsed /\ CleanerSelects(listed[cleanerAt]) /\ status \in {200, 204}
                                             THEN cleanerDeleted \cup {cleanerAt}
                                             ELSE cleanerDeleted
                       /\ UNCHANGED <<listed, besidesCleaner>>

InitCleaner == listed = <<>> /\ cleanerAt = 1 /\ cleanerDeleted = {}

\* ------------------------------------------------------------------- Init
InitThreadView == /\ messages = <<>>
                  /\ isLoading = FALSE
                  /\ error = FALSE
                  /\ streamedMessages = <<>>
                  /\ persistedIntermediateGroups = EmptyGroups
                  /\ optimisticMessage = NULL
                  /\ threadId = NoThread
                  /\ effectsPending = FALSE
                  /\ captured = NoCapture
                  /\ regenerated = NoRegeneration
                  /\ view = Reconcile(<<>>, NULL, <<>>, EmptyGroups, FALSE)

Init == InitThreadView /\ InitProvider /\ InitError /\ InitParse /\ InitUpload /\ InitUsage /\ InitCleaner /\ InitSubmit /\ InitMode /\ toolHistory = <<>> /\ request = NoRequest

Next == \/ RunEffects
        \/ \E h \in HumanIds, hasInput \in BOOLEAN, projected \in BOOLEAN : HandleSubmit(h, hasInput, projected)
        \/ HandleRegenerate
        \/ \E m \in HumanMsgs \cup AiMsgs : StoreAppend(m)
        \/ \E i \in 1..MaxLen : StoreDrop(i)
        \/ \E i \in 1..MaxLen : StoreRewrite(i)
        \/ \E err \in BOOLEAN : StoreFinish(err)

\* one conversation: submissions, regenerations and the notifications of its stream
Spec == Init /\ [][Next]_vars

\* the conversation view together with the thread-switching paths of the history UI
NextThread == \/ RunEffects
              \/ \E h \in HumanIds, hasInput \in BOOLEAN, projected \in BOOLEAN : HandleSubmit(h, hasInput, projected)
              \/ HandleRegenerate
              \/ \E m \in HumanMsgs \cup AiMsgs : StoreAppend(m)
              \/ \E i \in 1..MaxLen : StoreDrop(i)
              \/ \E err \in BOOLEAN : StoreFinish(err)
              \/ \E fromHistory \in BOOLEAN : NewChat(fromHistory)
              \/ \E t \in ThreadIds : SelectThread(t)
              \/ DeleteOpenThread

SpecThread == Init /\ [][NextThread]_vars

\* temporary mode, the metadata of submissions and the ways of entering and leaving a thread
NextMode == \/ RunEffects
            \/ ToggleTemporary
            \/ \E input \in InputTexts, hasBlocks \in BOOLEAN, hasUid \in BOOLEAN : HandleSubmitMetadata(input, hasBlocks, hasUid)
            \/ \E t \in AllThreadIds : ThreadCreated(t)
            \/ \E fromHistory \in BOOLEAN : NewChat(fromHistory)
            \/ \E t \in ListedThreadIds : SelectThread(t)
            \/ DeleteOpenThread

SpecMode == Init /\ [][NextMode]_vars

\* the pending passive effects of a commit are run to the end: effectsPending turns false
EffectsSettle == effectsPending /\ effectsPending' = FALSE

\* React runs the passive effects of every committed render: no render stays with its effects pending
SpecLive == Init /\ [][Next]_vars /\ WF_effectsPending(EffectsSettle)

\* the request handlers applied to the sequences the stream can show
InitRequest == InitThreadView /\ InitProvider /\ InitError /\ InitParse /\ InitUpload /\ InitUsage /\ InitCleaner /\ InitSubmit /\ InitMode /\ toolHistory \in ToolHistories /\ request = NoRequest

NextRequest == \/ \E hasInput \in BOOLEAN : HandleSubmitRequest(hasInput)
               \/ HandleRegenerateRequest

SpecRequest == InitRequest /\ [][NextRequest]_vars

\* a submission on every sequence the stream can show, followed to the transcript
NextSubmit == \E hasInput \in BOOLEAN : HandleSubmitProjection(hasInput)

SpecSubmit == InitRequest /\ [][NextSubmit]_vars

\* the thread provider: deleteThread invocations, their requests and timers, and its renders
NextProvider == \/ \E t \in ListedThreadIds, hasApiUrl \in BOOLEAN : DeleteThread(t, hasApiUrl)
                \/ \E k \in 1..MaxCalls : DeleteRequestSucceeds(k)
                \/ \E k \in 1..MaxCalls : DeleteRequestFails(k)
                \/ \E k \in 1..MaxCalls : DeleteTimeout(k)
                \/ \E t \in ListedThreadIds, hasApiUrl \in BOOLEAN : DuplicateThread(t, hasApiUrl)
                \/ \E k \in 1..MaxCalls : DuplicateRequestSucceeds(k)
                \/ \E k \in 1..MaxCalls : DuplicateRequestFails(k)
                \/ \E k \in 1..MaxCalls : DuplicateTimeout(k)
                \/ \E k \in 1..MaxCalls, list \in ThreadLists : DuplicateRefreshSucceeds(k, list)
                \/ \E k \in 1..MaxCalls : DuplicateRefreshFails(k)
                \/ \E t \in ListedThreadIds, title \in Titles, hasApiUrl \in BOOLEAN : RenameThread(t, title, hasApiUrl)
                \/ \E k \in 1..MaxCalls : RenameRequestSucceeds(k)
                \/ \E k \in 1..MaxCalls : RenameRequestFails(k)
                \/ \E k \in 1..MaxCalls : RenameTimeout(k)
                \/ ProviderRender

SpecProvider == Init /\ [][NextProvider]_vars

\* every setTimeout of a waiting invocation fires unless its request settles before
TimersFire == \A k \in 1..MaxCalls : WF_providerVars(DeleteTimeout(k)) /\ WF_providerVars(DuplicateTimeout(k)) /\ WF_providerVars(RenameTimeout(k))

\* the thread provider with its timers running; the server is free to answer or not
SpecProviderLive == Init /\ [][NextProvider]_vars /\ TimersFire

\* the values stream.error takes
StreamErrors == {NoError} \cup {[message |-> m, object |-> o] : m \in ErrorTexts, o \in ErrorObjects}

NextError == \E e \in StreamErrors : StreamError(e)

\* the error effect under the error values the stream context can report
SpecError == Init /\ [][NextError]_vars

\* the parsers applied to every text up to MaxInputLen tokens
InitParsers == InitThreadView /\ InitProvider /\ InitError /\ InitUpload /\ InitUsage /\ InitCleaner /\ InitSubmit /\ InitMode /\ toolHistory = <<>> /\ request = NoRequest /\ parseInput \in JsonTexts /\ parseResult = NotRun

NextParse == \/ ParseToolCall
             \/ \E where \in {"content", "arguments"} : ExtractThinking(where)

SpecParse == InitParsers /\ [][NextParse]_vars

NextUpload == \/ \E type \in FileTypes : SelectFile(type)
              \/ \E hasText \in BOOLEAN : HandleSubmitContent(hasText)

\* attachments from their selection to the submitted human message
SpecUpload == Init /\ [][NextUpload]_vars

\* the usage computation on every transcript shape, with an intermediate group for h1 and one for h2
InitUsages == /\ InitThreadView /\ InitProvider /\ InitError /\ InitParse /\ InitUpload /\ InitCleaner /\ InitSubmit /\ InitMode /\ toolHistory = <<>> /\ request = NoRequest
              /\ usageMessages \in UsageLists
              /\ \E g1 \in UsageGroupLists, g2 \in {<<>>, <<UsageAi(Usage(2, 1, 3, 1, 1))>>} : usageGroups = [h \in {"h1", "h2"} |-> IF h = "h1" THEN g1 ELSE g2]
              /\ shownAt = 0
              /\ aggregatedUsage = NullUsage

NextUsage == \E index \in 1..5 : RenderAssistantMessage(index)

SpecUsage == InitUsages /\ [][NextUsage]_vars

\* one run of the cleaner on every list of up to MaxListed threads
InitCleanerRun == /\ InitThreadView /\ InitProvider /\ InitError /\ InitParse /\ InitUpload /\ InitUsage /\ InitSubmit /\ InitMode /\ toolHistory = <<>> /\ request = NoRequest
                  /\ listed \in UNION {[1..n -> ListedThreads] : n \in 0..MaxListed}
                  /\ cleanerAt = 1
                  /\ cleanerDeleted = {}

NextCleaner == \E status \in {200, 204, 404, 500} : CleanerStep(status)

SpecCleaner == InitCleanerRun /\ [][NextCleaner]_vars

\* ------------------------------------------------ reading reconciler output
Base == BaseMessages(messages, optimisticMessage)

\* position of the human message with id hid in finalMessages (0: none)
HumanPos(final, hid) == IF \E p \in DOMAIN final : final[p].type = "human" /\ final[p].id = hid THEN CHOOSE p \in DOMAIN final : final[p].type = "human" /\ final[p].id = hid ELSE 0

\* the assistant/tool message placed directly after the human message hid, as a sequence of length 0 or 1
FinalOf(out, hid) == LET p == HumanPos(out.finalMessages, hid) IN IF p # 0 /\ p < Len(out.finalMessages) /\ IsAiOrTool(out.finalMessages[p + 1]) THEN <<out.finalMessages[p + 1]>> ELSE <<>>

\* everything attributed to the turn of hid: its intermediate group, then its final message
TurnMsgs(out, hid) == GroupsGet(out.intermediateGroups, hid) \o FinalOf(out, hid)

TurnIds(out, hid) == Ids(TurnMsgs(out, hid))

\* ----------------------------------------------------------------- claims
\* C1: while streaming is active, when the stream removes from its sequence an assistant/tool message
\* of the active turn that the accumulator has captured, the next reconciler output still attributes
\* the removed message to that turn and finalMessages is not shorter than before; in the scenario
\* [h1, t1, a1] -> [h1, a1] the output is intermediateGroups[h1] = [t1], finalMessages = [h1, a1].
C1_Scenario == (isLoading /\ IdSeq(messages) = <<"h1", "a1">> /\ IdSeq(streamedMessages) = <<"t1", "a1">> /\ optimisticMessage = NULL) => (IdSeq(GroupsGet(view.intermediateGroups, "h1")) = <<"t1">> /\ IdSeq(view.finalMessages) = <<"h1", "a1">>)

C1_RemovedStep == (isLoading /\ isLoading' /\ threadId' = threadId /\ FindLastHumanIndex(messages) # 0) => \A i \in DOMAIN messages : (i > FindLastHumanIndex(messages) /\ IsAiOrTool(messages[i]) /\ messages[i].id \in Ids(streamedMessages) /\ messages[i].id \notin Ids(messages')) => (messages[i].id \in TurnIds(view', LastHumanId(messages)) /\ Len(view'.finalMessages) >= Len(view.finalMessages))

C1_RemovedStaysAttributed == [][C1_RemovedStep /\ C1_Scenario']_vars

\* C1 witness: the collapsed scenario state, reached by the stream removing t1
C1_Witness == isLoading /\ IdSeq(messages) = <<"h1", "a1">> /\ IdSeq(streamedMessages) = <<"t1", "a1">> /\ IdSeq(GroupsGet(view.intermediateGroups, "h1")) = <<"t1">>

\* C2: for the turn that is streaming, the number of distinct message ids attributed to it (final plus
\* intermediate) does not decrease from one reconciler output to the next.
C2_Step == (isLoading /\ isLoading' /\ LastHumanId(Base) # NoId /\ LastHumanId(Base)' = LastHumanId(Base)) => Cardinality(TurnIds(view', LastHumanId(Base))) >= Cardinality(TurnIds(view, LastHumanId(Base)))

C2_MonotonicVisibility == [][C2_Step]_vars

\* the stream's assistant/tool messages after its last human message
StoreTail == SubSeq(messages, FindLastHumanIndex(messages) + 1, Len(messages))

\* C3: when streaming has ended for turn H with at least two messages of H captured and the stream's
\* sequence shows, after H, only the last captured message, intermediateGroups[H] is the captured
\* list without its last element.
C3_PersistenceSurvives == (~isLoading /\ ~error /\ Len(captured.ids) >= 2 /\ captured.human # NoId /\ LastHumanId(messages) = captured.human /\ IdSeq(StoreTail) = <<captured.ids[Len(captured.ids)]>> /\ \A j \in 1..(FindLastHumanIndex(messages) - 1) : \A k \in DOMAIN captured.ids : messages[j].id # captured.ids[k]) => IdSeq(GroupsGet(view.intermediateGroups, captured.human)) = SliceButLast(captured.ids)

\* C4: every change of threadId leaves the accumulator, the persistence cache and the optimistic
\* placeholder empty, and the reconciler output that follows holds only messages of the stream's sequence.
C4_Step == (threadId' # threadId) => (streamedMessages' = <<>> /\ persistedIntermediateGroups' = EmptyGroups /\ optimisticMessage' = NULL /\ \A i \in DOMAIN view'.finalMessages : \E j \in DOMAIN messages' : messages'[j] = view'.finalMessages[i])

C4_ResetIsolation == [][C4_Step]_vars

CountId(s, id) == Cardinality({i \in DOMAIN s : s[i].id = id})

\* C5: whenever the stream's sequence contains the human message x, or the placeholder x is present,
\* finalMessages contains exactly one message with id x.
C5_OptimisticConvergence == \A x \in HumanIds : (x \in Ids(messages) \/ optimisticMessage.id = x) => CountId(view.finalMessages, x) = 1

\* C5 witness: a render in which the placeholder is still held while the stream already shows its id
C5_Witness == optimisticMessage # NULL /\ optimisticMessage.id \in Ids(messages) /\ CountId(view.finalMessages, optimisticMessage.id) = 1

\* index of the nearest human message before position i of s (0: none)
NearestHumanIndex(s, i) == FindLastHumanIndex(SubSeq(s, 1, i - 1))

\* C6: every assistant/tool message of the base sequence is attributed to the turn of the nearest
\* preceding human message and to no other turn; one that precedes every human message is in
\* finalMessages and in no turn.
C6_TurnPartition == \A i \in DOMAIN Base : IsAiOrTool(Base[i]) => LET h == NearestHumanIndex(Base, i) IN IF h = 0 THEN (\E p \in DOMAIN view.finalMessages : view.finalMessages[p].id = Base[i].id /\ IsAiOrTool(view.finalMessages[p])) /\ (\A g \in HumanIds : Base[i].id \notin TurnIds(view, g)) ELSE Base[i].id \in TurnIds(view, Base[h].id) /\ (\A g \in HumanIds \ {Base[h].id} : Base[i].id \notin TurnIds(view, g))

\* the assistant/tool messages the base sequence holds for the turn of the human message at position h
RECURSIVE StoreTurn(_, _)
StoreTurn(s, h) == IF h >= Len(s) \/ s[h + 1].type = "human" THEN <<>> ELSE <<s[h + 1]>> \o StoreTurn(s, h + 1)

\* the merged list of a turn as the claim defines it: persisted intermediates of the cache first,
\* then the live candidates, one entry per id
MergedList(h) == AllAIs(GroupsGet(persistedIntermediateGroups, Base[h].id), IF h = FindLastHumanIndex(Base) /\ Len(streamedMessages) > 0 THEN ActiveTurnAIs(Base, streamedMessages) ELSE StoreTurn(Base, h))

\* no id held by the accumulator occurs in the base sequence before the most recent human message
NoEarlierIdCaptured == \A k \in DOMAIN streamedMessages : \A j \in 1..(FindLastHumanIndex(Base) - 1) : Base[j].id # streamedMessages[k].id

\* C7: for every turn with a non-empty merged list, the message after the turn's human message in
\* finalMessages is the last element of the merged list and intermediateGroups[H] is the rest, in order
\* (stated for the renders in which the accumulator holds no id of an earlier turn).
C7_FinalIsLast == NoEarlierIdCaptured => \A h \in DOMAIN Base : (Base[h].type = "human" /\ Len(MergedList(h)) > 0) => (FinalOf(view, Base[h].id) = <<MergedList(h)[Len(MergedList(h))]>> /\ GroupsGet(view.intermediateGroups, Base[h].id) = SliceButLast(MergedList(h)))

\* C8: while a turn is streaming, no id that occurs in the base sequence before the most recent human
\* message is attributed to that turn, as final or as intermediate.
C8_NoEarlierTurnIds == (isLoading /\ FindLastHumanIndex(Base) # 0) => \A j \in 1..(FindLastHumanIndex(Base) - 1) : Base[j].id = NoId \/ Base[j].id \notin TurnIds(view, LastHumanId(Base))

\* C9: every assistant/tool message without an id of the base sequence is in finalMessages (as many
\* as the base sequence holds) and none is in an intermediate group.
C9_NoIdNeverHidden == /\ CountId(view.finalMessages, NoId) = CountId(Base, NoId)
                      /\ \A g \in DOMAIN view.intermediateGroups : NoId \notin Ids(view.intermediateGroups[g])

\* C10: when the effects run after streaming ended with a non-empty accumulator and a human message in
\* the stream's sequence, the cache entry of the most recent human message becomes exactly the
\* accumulator entries whose ids are not in the stream's sequence, and the accumulator becomes empty.
C10_Step == (effectsPending /\ ~isLoading /\ Len(streamedMessages) > 0 /\ FindLastHumanIndex(messages) # 0) => (GroupsGet(persistedIntermediateGroups', LastHumanId(messages)) = PersistIntermediates(streamedMessages, messages) /\ streamedMessages' = <<>>)

C10_PersistExactly == [][C10_Step]_vars

\* C11: after a regeneration request on turn H, once the stream shows new output after H and no longer
\* the message that was the final message of H, that output is the final message of H and the previous
\* final message is attributed to H neither as final nor as intermediate.
C11_RegenerationReplaces == (~effectsPending /\ regenerated.human # NoId /\ regenerated.prev # NoId /\ optimisticMessage = NULL /\ LastHumanId(messages) = regenerated.human /\ regenerated.prev \notin Ids(messages) /\ Len(StoreTail) > 0 /\ StoreTail[Len(StoreTail)].id # NoId) => (FinalOf(view, regenerated.human) = <<StoreTail[Len(StoreTail)]>> /\ regenerated.prev \notin TurnIds(view, regenerated.human))

\* the output for the turn of hid is the same in this render and in the next
SameTurnOutput(hid) == FinalOf(view', hid) = FinalOf(view, hid) /\ GroupsGet(view'.intermediateGroups, hid) = GroupsGet(view.intermediateGroups, hid)

\* C12: when streaming ends without an error and with the stream's sequence unchanged, the output for
\* the active turn is the same right after the transition as right before it: in the render that sees
\* isLoading false, and in the render that follows the freeze of the accumulator into the cache
\* (stated for the renders in which the accumulator holds no id of an earlier turn).
C12_Step == /\ (isLoading /\ ~isLoading' /\ ~error' /\ messages' = messages /\ threadId' = threadId /\ LastHumanId(Base) # NoId /\ NoEarlierIdCaptured) => SameTurnOutput(LastHumanId(Base))
            /\ (effectsPending /\ ~isLoading /\ ~error /\ Len(streamedMessages) > 0 /\ LastHumanId(Base) # NoId /\ NoEarlierIdCaptured) => SameTurnOutput(LastHumanId(Base))

C12_CancelFreezes == [][C12_Step]_vars

\* the accumulator holds, with its current content, every assistant/tool message with an id that the
\* stream's sequence shows after its most recent human message
AccumulatorCovers == \A i \in DOMAIN messages : (FindLastHumanIndex(messages) # 0 /\ i > FindLastHumanIndex(messages) /\ IsAiOrTool(messages[i]) /\ messages[i].id # NoId) => \E k \in DOMAIN streamedMessages : streamedMessages[k] = messages[i]

\* while streaming stays active every entry of the accumulator keeps its position and its id
AccumulatorKeeps == (isLoading /\ isLoading') => \A k \in DOMAIN streamedMessages : k \in DOMAIN streamedMessages' /\ streamedMessages'[k].id = streamedMessages[k].id

\* C13 as claimed: while streaming is active, after each notification has been processed the
\* accumulator covers the stream's sequence after the most recent human message, entries keep their
\* position when their content is replaced, and no entry is removed.
C13_AccumulatorComplete == [][AccumulatorKeeps /\ ((isLoading /\ ~effectsPending) => AccumulatorCovers)']_vars

\* the stream has not caught up with the submission: a placeholder is held and the most recent human
\* message of the stream's sequence is not the submitted one
StreamBehindSubmission == optimisticMessage # NULL /\ LastHumanId(messages) # optimisticMessage.id

\* C13 amended: the same, for the renders in which the stream has caught up with the submission.
C13_AccumulatorCompleteWhenCaughtUp == [][AccumulatorKeeps /\ ((isLoading /\ ~effectsPending /\ ~StreamBehindSubmission) => AccumulatorCovers)']_vars

\* C13 witness: streaming, all effects run, the accumulator holds a rewritten message at its original
\* position in front of a message captured after it
C13_Witness == isLoading /\ ~effectsPending /\ ~StreamBehindSubmission /\ Len(streamedMessages) = 2 /\ streamedMessages[1].v = 2 /\ AccumulatorCovers /\ Len(StoreTail) = 2

\* C14: the accumulator is empty after a change of threadId, after the submission of a new human
\* message and after its freeze into the cache; nothing is attributed to the turn of a submitted
\* message before the stream shows that message.
C14_Step == /\ (threadId' # threadId) => streamedMessages' = <<>>
            /\ (optimisticMessage' # NULL /\ optimisticMessage' # optimisticMessage) => streamedMessages' = <<>>
            /\ (effectsPending /\ ~isLoading /\ Len(streamedMessages) > 0) => streamedMessages' = <<>>
            /\ (optimisticMessage' # NULL /\ optimisticMessage'.id \notin Ids(messages')) => TurnMsgs(view', optimisticMessage'.id) = <<>>

C14_AccumulatorReset == [][C14_Step]_vars

\* C15: when the effects run after streaming ended with a non-empty accumulator and the stream's
\* sequence holds no human message, the persistence cache is left as it is and no error is set.
C15_Step == (effectsPending /\ ~isLoading /\ Len(streamedMessages) > 0 /\ FindLastHumanIndex(messages) = 0) => (persistedIntermediateGroups' = persistedIntermediateGroups /\ error' = error)

C15_NoHumanNoPersist == [][C15_Step]_vars

\* C15 witness: the accumulator was frozen while the stream's sequence held no human message and
\* lacked a captured message
C15_Witness == ~isLoading /\ ~effectsPending /\ captured.human = NoId /\ Len(captured.ids) > 0 /\ FindLastHumanIndex(messages) = 0 /\ \E k \in DOMAIN captured.ids : captured.ids[k] \notin Ids(messages)

\* the live candidates of the turn of the human message at position h of the base sequence
LiveCandidates(h) == IF h = FindLastHumanIndex(Base) /\ Len(streamedMessages) > 0 THEN ActiveTurnAIs(Base, streamedMessages) ELSE StoreTurn(Base, h)

\* the ids that the cache entry of the turn at position h and its live candidates have in common
SharedIds(h) == (Ids(GroupsGet(persistedIntermediateGroups, Base[h].id)) \cap Ids(LiveCandidates(h))) \ {NoId}

\* C16: for every turn and every id that occurs both in the turn's cache entry and in its live
\* candidates, the output holds exactly one message with that id in the turn and it is the live one.
C16_LiveWins == \A h \in DOMAIN Base : (Base[h].type = "human" /\ Base[h].id # NoId) => \A x \in SharedIds(h) : /\ CountId(TurnMsgs(view, Base[h].id), x) = 1
                                                                                                                /\ \A k \in DOMAIN TurnMsgs(view, Base[h].id) : TurnMsgs(view, Base[h].id)[k].id = x => \E j \in DOMAIN LiveCandidates(h) : LiveCandidates(h)[j] = TurnMsgs(view, Base[h].id)[k]

\* C16 witness: a turn whose cache entry and live candidates hold the same id with different content
C16_Witness == \E h \in DOMAIN Base : Base[h].type = "human" /\ \E x \in SharedIds(h) : \E i \in DOMAIN GroupsGet(persistedIntermediateGroups, Base[h].id) : \E j \in DOMAIN LiveCandidates(h) : GroupsGet(persistedIntermediateGroups, Base[h].id)[i].id = x /\ LiveCandidates(h)[j].id = x /\ LiveCandidates(h)[j].v # GroupsGet(persistedIntermediateGroups, Base[h].id)[i].v /\ LiveCandidates(h)[j] \in {TurnMsgs(view, Base[h].id)[k] : k \in DOMAIN TurnMsgs(view, Base[h].id)}

\* C17: for every turn whose merged list is empty, finalMessages holds the human message with no
\* assistant/tool message after it and intermediateGroups has no entry for its id.
C17_EmptyTurn == \A h \in DOMAIN Base : (Base[h].type = "human" /\ Base[h].id # NoId /\ Len(MergedList(h)) = 0) => (HumanPos(view.finalMessages, Base[h].id) # 0 /\ FinalOf(view, Base[h].id) = <<>> /\ Base[h].id \notin DOMAIN view.intermediateGroups)

\* the placeholder is due for discarding: the stream's sequence shows its id or the stream has an error
PlaceholderDue == optimisticMessage # NULL /\ (optimisticMessage.id \in Ids(messages) \/ error)

\* the placeholder is given up only when it is due, by a change of thread or by a newer submission
C18_Step == (optimisticMessage # NULL /\ optimisticMessage' # optimisticMessage) => (PlaceholderDue \/ threadId' # threadId \/ optimisticMessage' # NULL)

\* while the stream's sequence does not show its id, the placeholder is the last human message of finalMessages
C18_Visible == (optimisticMessage # NULL /\ optimisticMessage.id \notin Ids(messages)) => LET p == FindLastHumanIndex(view.finalMessages) IN p # 0 /\ view.finalMessages[p] = optimisticMessage

\* C18: once the stream's sequence shows the id of the placeholder or the stream reports an error,
\* the placeholder is eventually discarded; it is not discarded before (but for a thread switch or a
\* newer submission), and until the stream shows its id it is the last human message of finalMessages.
C18_PlaceholderLifecycle == [][C18_Step]_vars /\ []C18_Visible /\ (PlaceholderDue ~> (optimisticMessage = NULL))

\* C18 witness: a placeholder the stream never showed, abandoned by a terminal error
C18_Witness == optimisticMessage # NULL /\ error /\ optimisticMessage.id \notin Ids(messages) /\ effectsPending

\* C19: after every request for a new streaming cycle, each tool call of the existing messages has a
\* tool result, among the existing messages or among the submitted ones.
C19_ToolCallsAnswered == request.sent => \A i \in DOMAIN toolHistory : \A k \in DOMAIN toolHistory[i].calls : Answered(toolHistory, toolHistory[i].calls[k]) \/ Answered(request.messages, toolHistory[i].calls[k])

\* the deleteThread invocations for thread t that still wait for their request
WaitingDeletes(t) == {k \in DOMAIN deleteCalls : deleteCalls[k].id = t /\ deleteCalls[k].waiting}

\* C20: at most one delete of a thread id is in flight at any time.
C20_OneDeleteInFlight == \A t \in ListedThreadIds : Cardinality(WaitingDeletes(t)) <= 1

\* the invocation deleteCalls[k] loses its race to the timer in this step
TimesOut(k) == deleteCalls[k].waiting /\ ~deleteCalls'[k].waiting /\ deleteCalls'[k].request = "inflight"

\* the request of the invocation deleteCalls[k] resolves in this step, after its timer has fired
SucceedsLate(k) == ~deleteCalls[k].waiting /\ deleteCalls[k].request = "inflight" /\ deleteCalls'[k].request = "ok"

\* C21: when a delete invocation times out, its thread id leaves deletingThreadIds, exactly one
\* notification is issued and it is the timeout one, and the thread list is left as it is; when its
\* request resolves afterwards, the thread list, the in-flight set and the notifications are left as they are.
C21_Step == \A k \in DOMAIN deleteCalls : /\ TimesOut(k) => (deleteCalls[k].id \notin deletingThreadIds' /\ toasts' = [toasts EXCEPT !["delete"]["timeout"] = @ + 1] /\ threads' = threads)
                                          /\ SucceedsLate(k) => (threads' = threads /\ toasts' = toasts /\ deletingThreadIds' = deletingThreadIds)

C21_DeleteTimeout == [][C21_Step]_vars

\* C21 witness: a delete that timed out and whose request resolved later; its thread is still listed
C21_Witness == \E k \in DOMAIN deleteCalls : ~deleteCalls[k].waiting /\ deleteCalls[k].request = "ok" /\ toasts["delete"] = [success |-> 0, failure |-> 0, timeout |-> 1] /\ deleteCalls[k].id \in DOMAIN threads /\ deleteCalls[k].id \notin deletingThreadIds

\* C22: every thread id that is in deletingThreadIds, duplicatingThreadIds or renamingThreadIds is
\* eventually removed from that set, whatever the server does.
C22_OperationsEnd == \A t \in ListedThreadIds : /\ (t \in deletingThreadIds) ~> (t \notin deletingThreadIds)
                                                /\ (t \in duplicatingThreadIds) ~> (t \notin duplicatingThreadIds)
                                                /\ (t \in renamingThreadIds) ~> (t \notin renamingThreadIds)

\* a request of the invocation calls[k] is rejected in this step while the invocation waits for it
FailsWaiting(calls, k) == calls[k].waiting /\ calls[k].request = "inflight" /\ calls'[k].request = "err"

\* the threads.search request of the duplicate invocation k is rejected in this step
RefreshFails(k) == duplicateCalls[k].refresh = "inflight" /\ duplicateCalls'[k].refresh = "err"

\* the requests started so far: one per invocation, and one more per refresh of a duplicate
RequestCount == CallCount + Cardinality({k \in DOMAIN duplicateCalls : duplicateCalls[k].refresh # "none"})

\* what C23 asks of a failure step of operation op on thread t with in-flight set marker
FailureHandled(op, t, marker) == threads' = threads /\ t \notin marker' /\ toasts' = [toasts EXCEPT ![op]["failure"] = @ + 1] /\ RequestCount' = RequestCount

\* C23: when a request of a delete, duplicate or rename invocation is rejected while the invocation
\* waits for it, the thread list is left as it is, the thread id leaves the in-flight set of the
\* operation, exactly one notification is issued and it is the failure one, and no request is started.
C23_Step == /\ \A k \in DOMAIN deleteCalls : FailsWaiting(deleteCalls, k) => FailureHandled("delete", deleteCalls[k].id, deletingThreadIds)
            /\ \A k \in DOMAIN duplicateCalls : (FailsWaiting(duplicateCalls, k) \/ RefreshFails(k)) => FailureHandled("duplicate", duplicateCalls[k].id, duplicatingThreadIds)
            /\ \A k \in DOMAIN renameCalls : FailsWaiting(renameCalls, k) => FailureHandled("rename", renameCalls[k].id, renamingThreadIds)

C23_FailureCaught == [][C23_Step]_vars

\* C23 witness: a delete and a rename whose requests were rejected; both ended with their failure
\* notification, the list is as it was and nothing is in flight
C23_Witness == \E k \in DOMAIN deleteCalls : \E j \in DOMAIN renameCalls : deleteCalls[k].request = "err" /\ renameCalls[j].request = "err" /\ toasts["delete"].failure = 1 /\ toasts["rename"].failure = 1 /\ deletingThreadIds = {} /\ renamingThreadIds = {} /\ threads = [t \in ListedThreadIds |-> "a"]

\* C24: while the stream reports an error, exactly one notification has been issued since its error
\* text last changed or the error was last cleared.
C24_NotifiedOnce == streamError # NoError => periodToasts = 1

\* C25: for every input text neither function throws; parseAnthropicStreamedToolCalls gives args that
\* is an object, an empty one when the text cannot be parsed; extractThinkingFromMessage gives
\* thinking null when the text cannot be parsed.
C25_ParsersNeverThrow == /\ parseResult.fn = "parseAnthropicStreamedToolCalls" => (~parseResult.out.threw /\ parseResult.out.args.kind = "object" /\ (ParsePartialJson(parseInput).kind = "null" => parseResult.out.args.size = 0))
                         /\ parseResult.fn = "extractThinkingFromMessage" => (~parseResult.out.threw /\ (JsonParse(parseInput).threw => parseResult.out.thinking = "null"))

\* the file types that a block of contentBlocks or a part of the submitted content can stem from
SupportedOnly(mimes) == mimes \subseteq SupportedFileTypes

\* C26: no block of an unsupported type is in contentBlocks and no part of an unsupported type is in
\* the submitted content; selecting a file of an unsupported type issues one error notification and
\* adds no block.
C26_Step == /\ SupportedOnly({contentBlocks'[i].mimeType : i \in DOMAIN contentBlocks'})
            /\ SupportedOnly({submittedContent'.parts[i].mime : i \in DOMAIN submittedContent'.parts} \ {"text"})
            /\ ~submittedContent'.threw
            /\ (uploadToasts' # uploadToasts \/ Len(contentBlocks') > Len(contentBlocks)) => (IF Len(contentBlocks') > Len(contentBlocks) THEN uploadToasts' = uploadToasts ELSE (uploadToasts' = uploadToasts + 1 /\ contentBlocks' = contentBlocks))

C26_UnsupportedRejected == [][C26_Step]_vars

\* C26 witness: an unsupported file was selected and refused, and a message with an attachment was submitted
C26_Witness == uploadToasts = 1 /\ submittedContent.sent /\ Len(submittedContent.parts) = 2 /\ contentBlocks = <<>>

\* the usage metadata carried by the messages of the turn whose final message is at position index:
\* those of its intermediate group, then that of the final message
TurnUsages(index) == LET p == PrecedingHumanIndex(usageMessages, index) turn == GroupsGet(usageGroups, usageMessages[p].id) \o <<usageMessages[index]>> IN SelectSeq([k \in DOMAIN turn |-> turn[k].usage], LAMBDA u : u.has)

\* the sum of one count over a list of usage metadata, a missing count being 0
RECURSIVE SumOf(_, _)
SumOf(us, f) == IF us = <<>> THEN 0 ELSE (IF Head(us)[f] = Missing THEN 0 ELSE Head(us)[f]) + SumOf(Tail(us), f)

NothingOfEarlierTurns == \A j \in DOMAIN messages : messages[j].id = NoId \/ (messages[j].id \notin Ids(streamedMessages) /\ messages[j].id \notin TurnIds(view, optimisticMessage.id))

\* C28: while streaming is active and the stream has not caught up with the submission, no step
\* changes the accumulator, and no message of the stream's sequence is held by the accumulator or
\* attributed to the turn of the submitted message.
C28_Step == /\ (isLoading /\ isLoading' /\ StreamBehindSubmission) => streamedMessages' = streamedMessages
            /\ (isLoading' /\ StreamBehindSubmission' /\ optimisticMessage'.id \notin Ids(messages')) => NothingOfEarlierTurns'

C28_NoCaptureBeforeCatchUp == [][C28_Step]_vars

\* C28 witness: a second submission whose message the stream does not show yet, the stream still
\* showing the answer of the first turn, all effects run and the accumulator empty
C28_Witness == isLoading /\ ~effectsPending /\ StreamBehindSubmission /\ optimisticMessage.id = "h2" /\ IdSeq(messages) = <<"h1", "a1">> /\ streamedMessages = <<>>

\* C29: every thread the cleaner deletes is marked temporary and was last updated more than 24 hours
\* before the run.
C29_OnlyExpiredTemporary == \A i \in cleanerDeleted : listed[i].temporary = "true" /\ listed[i].updated # Unparsed /\ listed[i].updated < Now - Day

\* a submit can be attempted: the effects of the last render have run and an id is free for the new message
SubmitPossible == ~effectsPending /\ \E h \in HumanIds : h \notin Ids(messages) \cup DOMAIN persistedIntermediateGroups

\* the messages shown that carry the id of the placeholder
PlaceholdersShown == IF optimisticMessage = NULL THEN {} ELSE {i \in DOMAIN view.finalMessages : view.finalMessages[i].id = optimisticMessage.id}

C30_Step == /\ \A h \in HumanIds, hasInput \in BOOLEAN, projected \in BOOLEAN : (~hasInput \/ isLoading) /\ HandleSubmit(h, hasInput, projected) => UNCHANGED vars
            /\ isLoading => optimisticMessage' \in {optimisticMessage, NULL}
            /\ isLoading /\ isLoading' => Ids(streamedMessages) \subseteq Ids(streamedMessages')
            /\ Cardinality(PlaceholdersShown') <= 1

\* C30: handleSubmit while streaming is active, or with no text and no attachment, changes nothing;
\* so while streaming is active no step installs another placeholder or takes a message out of the
\* accumulator, and at most one placeholder is shown.
C30_SubmitWhileStreamingIsNoOp == [][C30_Step]_vars

\* a submit can be attempted while streaming is active and messages of the turn are accumulated
C30_Witness == SubmitPossible /\ isLoading /\ Len(streamedMessages) > 0

\* ids of the messages held in the persistence cache, under any human message
CachedIds == UNION {Ids(persistedIntermediateGroups[g]) : g \in DOMAIN persistedIntermediateGroups}

\* the message is held only in the persistence cache
CacheOnly(m) == m.id # NoId /\ m.id \in CachedIds /\ m.id \notin Ids(messages) /\ m.id \notin Ids(streamedMessages)

\* C31: no assistant/tool message of finalMessages is one that only the persistence cache holds.
C31_CacheOnlyNeverFinal == \A i \in DOMAIN view.finalMessages : IsAiOrTool(view.finalMessages[i]) => ~CacheOnly(view.finalMessages[i])

\* position of the id in the sequence of messages (0: none)
PosOf(s, id) == IF \E k \in DOMAIN s : s[k].id = id THEN CHOOSE k \in DOMAIN s : s[k].id = id ELSE 0

\* the messages of s that ref also holds come in s in the order they have in ref
InOrderOf(s, ref) == \A i, j \in DOMAIN s : (i < j /\ PosOf(ref, s[i].id) # 0 /\ PosOf(ref, s[j].id) # 0) => PosOf(ref, s[i].id) < PosOf(ref, s[j].id)

\* the effects that run freeze a non-empty accumulator into the cache
FreezeStep == effectsPending /\ ~isLoading /\ Len(streamedMessages) > 0 /\ LastHumanId(messages) # NoId

C32_Step == FreezeStep => LET H == LastHumanId(messages) IN /\ InOrderOf(TurnMsgs(view, H), streamedMessages)
                                                            /\ InOrderOf(TurnMsgs(view', H), streamedMessages)
                                                            /\ IdSeq(GroupsGet(view'.intermediateGroups, H)) = IdSeq(GroupsGet(view.intermediateGroups, H))
                                                            /\ FinalOf(view', H) = FinalOf(view, H)

\* C32: at the freeze of the accumulator into the cache the messages attributed to the turn are, before
\* and after, in the order in which the accumulator captured them, the intermediates keep their order
\* and the turn's final message stays the same.
C32_FreezeKeepsOrder == [][C32_Step]_vars

\* C33: every message the freeze stores in the cache under H was set in the accumulator while H was
\* the most recent human message of the stream's sequence.
C33_Step == FreezeStep => \A k \in DOMAIN streamedMessages : streamedMessages[k].id \in Ids(GroupsGet(persistedIntermediateGroups', LastHumanId(messages))) => captured.at[k] = LastHumanId(messages)

C33_FiledUnderCapturingHuman == [][C33_Step]_vars

\* C34: for each human message the turn's final message and the messages of its intermediate group
\* have pairwise distinct ids.
C34_TurnIdsDistinct == \A H \in HumanIds : \A i, j \in DOMAIN TurnMsgs(view, H) : i # j => TurnMsgs(view, H)[i].id # TurnMsgs(view, H)[j].id

\* C34 witness: a turn with a final message and an intermediate whose cache entry and live candidates
\* hold the same id
C34_Witness == \E h \in DOMAIN Base : Base[h].type = "human" /\ SharedIds(h) # {} /\ Len(TurnMsgs(view, Base[h].id)) >= 2

C35_Step == /\ (~isLoading /\ Len(streamedMessages) > 0) => (effectsPending /\ streamedMessages' = <<>>)
            /\ (~isLoading' /\ ~effectsPending') => streamedMessages' = <<>>

\* C35: when streaming is inactive and the effects have run the accumulator is empty; a non-empty
\* accumulator with streaming inactive is seen only by the render whose effects are still to run, and
\* these effects empty it.
C35_AccumulatorEmptyWhenIdle == [][C35_Step]_vars

\* C35 witness: streaming is over, the effects have run, and the accumulator that was frozen held messages
C35_Witness == ~isLoading /\ ~effectsPending /\ Len(captured.ids) > 0 /\ streamedMessages = <<>>

\* the turn of the human message at position h of the sequence s holds a message that is rendered
HasRenderable(s, h) == \E k \in DOMAIN StoreTurn(s, h) : ~StartsWithDoNotRender(StoreTurn(s, h)[k].id)

\* the transcript t shows an assistant/tool message directly after the human message hid
ShowsFinal(t, hid) == LET p == HumanPos(t, hid) IN p # 0 /\ p < Len(t) /\ IsAiOrTool(t[p + 1])

\* C36: in the transcript of a submission every turn that holds a message that is rendered shows a
\* final message.
C36_RenderableTurnShowsFinal == projection.sent => \A h \in DOMAIN projection.messages : (projection.messages[h].type = "human" /\ HasRenderable(projection.messages, h)) => ShowsFinal(projection.transcript, projection.messages[h].id)

\* the invocations of each operation that have run to their end
DeleteEnded == {k \in DOMAIN deleteCalls : ~deleteCalls[k].waiting}

DuplicateEnded == {k \in DOMAIN duplicateCalls : ~duplicateCalls[k].waiting /\ duplicateCalls[k].refresh # "inflight"}

RenameEnded == {k \in DOMAIN renameCalls : ~renameCalls[k].waiting}

\* the notifications issued so far for the operation
Notifications(op) == toasts[op].success + toasts[op].failure + toasts[op].timeout

\* the request of the invocation calls[k] settles in this step, after its timer has fired
SettlesLate(calls, k) == ~calls[k].waiting /\ calls[k].request = "inflight" /\ calls'[k].request # "inflight"

C37_Step == /\ Notifications("delete")' = Cardinality(DeleteEnded') /\ Notifications("duplicate")' = Cardinality(DuplicateEnded') /\ Notifications("rename")' = Cardinality(RenameEnded')
            /\ Notifications("delete")' + Notifications("duplicate")' + Notifications("rename")' <= Notifications("delete") + Notifications("duplicate") + Notifications("rename") + 1
            /\ \A k \in DOMAIN deleteCalls : SettlesLate(deleteCalls, k) => (toasts' = toasts /\ threads' = threads)
            /\ \A k \in DOMAIN duplicateCalls : SettlesLate(duplicateCalls, k) => (toasts' = toasts /\ threads' = threads)
            /\ \A k \in DOMAIN renameCalls : SettlesLate(renameCalls, k) => (toasts' = toasts /\ threads' = threads)

\* C37: the notifications of each operation are as many as its invocations that have ended, a step
\* issues at most one, and a request that settles after its timer has fired changes neither the
\* notifications nor the thread list.
C37_OneNotification == [][C37_Step]_vars

\* C37 witness: a duplicate whose copy was rejected and a rename whose update resolved, each after its
\* timer had fired; each has its timeout notification only and the list is as it was
C37_Witness == \E k \in DOMAIN duplicateCalls : \E j \in DOMAIN renameCalls : /\ ~duplicateCalls[k].waiting /\ duplicateCalls[k].request = "err" /\ toasts["duplicate"] = [success |-> 0, failure |-> 0, timeout |-> 1]
                                                                               /\ ~renameCalls[j].waiting /\ renameCalls[j].request = "ok" /\ toasts["rename"] = [success |-> 0, failure |-> 0, timeout |-> 1]
                                                                               /\ threads = [t \in ListedThreadIds |-> "a"]

\* every character of the text is a blank
AllBlank(s) == \A i \in DOMAIN s : s[i] = 0

\* t is what is left of the text s without the blanks at its ends, cut to its first TitleLength characters
IsTitleOf(t, s) == \E k \in 0..Len(s) : /\ AllBlank(SubSeq(s, 1, k))
                                        /\ k + Len(t) <= Len(s)
                                        /\ t = SubSeq(s, k + 1, k + Len(t))
                                        /\ Len(t) > 0 /\ t[1] # 0
                                        /\ Len(t) <= TitleLength
                                        /\ Len(t) < TitleLength => (t[Len(t)] # 0 /\ AllBlank(SubSeq(s, k + Len(t) + 1, Len(s))))

\* what C38 asks of the metadata md of a submission of the text input
MetadataAsClaimed(md, input) == IF threadId # NoThread THEN ~md.defined /\ ~md.gcp_iap_uid /\ md.temporary = "undefined" /\ ~md.hasTitle
                                ELSE /\ md.temporary = "true" <=> isTemporaryMode
                                     /\ md.temporary \in {"true", "undefined"}
                                     /\ IF AllBlank(input) THEN ~md.hasTitle ELSE md.hasTitle /\ IsTitleOf(md.title, input)
                                     /\ md.defined <=> (md.gcp_iap_uid \/ md.temporary = "true" \/ md.hasTitle)

C38_Step == (submittedMetadata' # submittedMetadata /\ submittedMetadata'.thread = threadId) => \A input \in InputTexts, hasBlocks \in BOOLEAN, hasUid \in BOOLEAN : ((~AllBlank(input) \/ hasBlocks) /\ ~isLoading /\ submittedMetadata' = MetadataOf(input, hasUid) /\ HandleSubmitMetadata(input, hasBlocks, hasUid)) => (submittedMetadata'.sent /\ MetadataAsClaimed(submittedMetadata', input))

\* C38: a submission to an open thread carries no metadata; a submission that creates a thread
\* carries temporary "true" exactly when temporary mode is on and, as title, the first TitleLength
\* characters of the trimmed input.
C38_MetadataOnlyOnCreation == [][C38_Step]_vars

\* C38 witness: a submission that created a temporary thread, its title cut to TitleLength characters
C38_Witness == submittedMetadata.sent /\ submittedMetadata.temporary = "true" /\ submittedMetadata.title = [i \in 1..TitleLength |-> i] /\ submittedMetadata.thread = NoThread

\* a step that leaves an open thread: the active thread id changes from that of an open thread
LeavesOpenThread == threadId # NoThread /\ threadId' # threadId

\* a step of the "Temporary Chat" switch with no thread open, the one way the user turns the mode on
SwitchedOn == threadId = NoThread /\ threadId' = NoThread /\ ~isTemporaryMode /\ isTemporaryMode' /\ submittedMetadata' = submittedMetadata

\* a step that submits with no thread open
SubmitsCreation == threadId = NoThread /\ threadId' = NoThread /\ submittedMetadata' # submittedMetadata

C39_Step == /\ LeavesOpenThread => ~isTemporaryMode'
            /\ (~isTemporaryMode /\ isTemporaryMode') => SwitchedOn
            /\ (SubmitsCreation /\ submittedMetadata'.temporary = "true") => isTemporaryMode
            /\ leftWhileTemporary' => ~isTemporaryMode'

\* C39: a step that leaves an open thread ends with temporary mode off; the mode comes on again only
\* by the switch, and a submission that creates a thread marks it temporary only with the mode on.
C39_LeavingTurnsTemporaryOff == [][C39_Step]_vars

\* C39 witness: an open thread has just been left with temporary mode on, and the mode is off
C39_Witness == leftWhileTemporary /\ ~isTemporaryMode /\ submittedMetadata.temporary = "true" /\ submittedMetadata.thread # threadId

====
